---- MODULE Spec2Model ----
(***************************************************************************)
(* A model of discord.py's gateway session (discord/gateway.py), of the    *)
(* connection state cache it mutates (discord/state.py) and of the client  *)
(* loop that owns both (discord/client.py).                                *)
(*                                                                         *)
(* One Client owns one ConnectionState (the cache), which every            *)
(* DiscordWebSocket the client ever opens shares (ws._connection =         *)
(* client.connection), and a current websocket self.ws.  A websocket owns  *)
(* its list of dispatch listeners and its keep-alive handle.               *)
(***************************************************************************)
EXTENDS Integers, Sequences, FiniteSets, TLC

(* ------------------------------ bounds -------------------------------- *)
\* websockets the client opens in one run (the first and the reconnects)
MaxConns == 2
\* futures handed out by wait_for in one run
MaxWaiters == 3
\* largest sequence number the server stamps on a frame
MaxSeq == 2
\* messages the server sends in one run of the cache specification
MaxMsgs == 2
\* largest declared member count of a server
MaxMembers == 3
\* messages the server sends beyond the capacity of the message cache
MaxOverflow == 3
\* large servers the gateway announces during one settle
MaxStaged == 200

(* -------------------------- program constants ------------------------- *)
DISPATCH == 0
HEARTBEAT == 1
IDENTIFY == 2
RECONNECT == 7
REQUEST_MEMBERS == 8
INVALIDATE_SESSION == 9
\* python's None, for the integer-valued fields (ids, sequence, session_id)
None == -1
\* the close code DiscordWebSocket.close and Client.connect treat as normal
NormalClose == 1000

Conns == 1..MaxConns
Futures == 1..MaxWaiters

(* ------------------------------- state -------------------------------- *)
VARIABLES
  ws,                  \* Client.ws: the current websocket, 0 before connect
  nconn,               \* websockets created so far
  is_closed,           \* Client._closed
  pc,                  \* where Client.connect is
  raised,              \* the exception Client.connect ended with, "" if none
  sock,                \* per websocket: "none", "open" or "closed"
  keep_alive,          \* per websocket: DiscordWebSocket._keep_alive, 0 = None
  drivers,             \* per websocket: the KeepAliveHandler threads started
  sent,                \* per websocket: the frames sent on it, in order
  dispatch_listeners,  \* per websocket: DiscordWebSocket._dispatch_listeners
  future,              \* the futures wait_for handed out
  nfut,                \* futures created so far
  connection,          \* Client.connection: the ConnectionState
  last,                \* history: the step taken last, with the payload it got,
                       \* the cache it found and what it dispatched
  seen,                \* history: the DISPATCH frames of the current websocket
  ready,               \* ConnectionState._ready_state and _listeners, with the
                       \* ReadyState objects, chunk futures and tasks they refer to
  voice,               \* the join_voice_channel calls and the VoiceClient objects
                       \* they made, each with its voice websocket and UDP socket
  threads,             \* per websocket: where each KeepAliveHandler thread is in
                       \* run(), with the future of the send it waits for
  client               \* Client._listeners and Client._is_ready, with the
                       \* wait_for_message calls made (history)

vars == <<ws, nconn, is_closed, pc, raised, sock, keep_alive, drivers, sent,
          dispatch_listeners, future, nfut, connection, last, seen, ready, voice,
          threads, client>>

(* ---------------------- ConnectionState (state.py) -------------------- *)
\* python's None where an object (a record) is expected
NoneObj == << >>

\* dict[key] = value
DictSet(d, key, value) == [x \in DOMAIN d \cup {key} |-> IF x = key THEN value ELSE d[x]]
\* dict.pop(key, None)
DictPop(d, key) == [x \in DOMAIN d \ {key} |-> d[x]]
\* the empty dict
EmptyDict == [x \in {} |-> NoneObj]
\* dict.get(key, default)
Get(d, key, default) == IF key \in DOMAIN d THEN d[key] ELSE default

(* ------------------------- futures and listeners ---------------------- *)
\* asyncio.Future(): pending, no result
NewFuture == [state |-> "PENDING", result |-> NoneObj, exception |-> ""]

\* the predicates callers hand to wait_for, by what they do on a payload:
\* "true" and "false" are its return values, "raise" an exception out of it;
\* session_id_found is the one of join_voice_channel, which reads self.user
PredEval(predicate, data) ==
  CASE predicate = "always" -> "true"
    [] predicate = "is1" -> IF data.id = 1 THEN "true" ELSE "false"
    [] predicate = "raises1" -> IF data.id = 1 THEN "raise" ELSE "false"
    [] predicate = "session_id_found" ->
         IF connection.user = NoneObj THEN "raise"
         ELSE IF Get(data, "user_id", None) = connection.user.id THEN "true"
         ELSE "false"

\* ret = data if entry.result is None else entry.result(data)
ResultOf(result, data) ==
  IF result = "None" THEN [by |-> "data", data |-> data]
  ELSE [by |-> result, data |-> data]

\* asyncio's Future.set_result / set_exception: only a pending future takes a
\* result; on any other they raise InvalidStateError
Settable(fut) == fut.state = "PENDING"

Resolved(ret) == [state |-> "FINISHED", result |-> ret, exception |-> ""]

Failed(e) == [state |-> "FINISHED", result |-> NoneObj, exception |-> e]

\* (mutation of PruneCancelled: a cancelled listener is never pruned)
PruneCancelledNever(removed, fut, index) == removed

\* `if future.cancelled(): removed.append(index)`: the loop body goes on
PruneCancelled(removed, fut, index) ==
  IF fut.state = "CANCELLED" THEN Append(removed, index) ELSE removed

\* the loop over self._dispatch_listeners in received_message, from entry
\* `index` on: the futures and the `removed` list it leaves, and the exception
\* that ended it early ("" when it ran to the end)
RECURSIVE ListenerLoop(_, _, _, _, _, _)
ListenerLoop(entries, index, futs, removed, event, data) ==
  IF index > Len(entries)
  THEN [futs |-> futs, removed |-> removed, exc |-> ""]
  ELSE
    LET entry == entries[index]
        fut == futs[entry.future]
        removed1 == PruneCancelled(removed, fut, index)
        valid == PredEval(entry.predicate, data)
    IN IF entry.event # event
       THEN ListenerLoop(entries, index + 1, futs, removed, event, data)
       ELSE IF valid = "raise"
       THEN IF ~Settable(fut)
            THEN [futs |-> futs, removed |-> removed1, exc |-> "InvalidStateError"]
            ELSE ListenerLoop(entries, index + 1,
                   [futs EXCEPT ![entry.future] = Failed("PredicateError")],
                   Append(removed1, index), event, data)
       ELSE IF valid = "true"
       THEN IF ~Settable(fut)
            THEN [futs |-> futs, removed |-> removed1, exc |-> "InvalidStateError"]
            ELSE ListenerLoop(entries, index + 1,
                   [futs EXCEPT ![entry.future] = Resolved(ResultOf(entry.result, data))],
                   Append(removed1, index), event, data)
       ELSE ListenerLoop(entries, index + 1, futs, removed1, event, data)

\* del entries[index]
DelAt(entries, index) ==
  [j \in 1..(Len(entries) - 1) |-> IF j < index THEN entries[j] ELSE entries[j + 1]]

\* for index in reversed(removed): del self._dispatch_listeners[index]
RECURSIVE DeleteReversed(_, _)
DeleteReversed(entries, removed) ==
  IF removed = << >> THEN [entries |-> entries, exc |-> ""]
  ELSE LET index == removed[Len(removed)]
       IN IF index > Len(entries)
          THEN [entries |-> entries, exc |-> "IndexError"]
          ELSE DeleteReversed(DelAt(entries, index), SubSeq(removed, 1, Len(removed) - 1))

(* ---------------------- the cache, continued -------------------------- *)
\* (mutation of DequeAppend: a full deque drops the new element)
DequeAppendKeepsOldest(q, x, maxlen) ==
  IF Len(q) < maxlen THEN Append(q, x) ELSE q

\* deque(maxlen=n).append(x): the oldest element goes when the deque is full
DequeAppend(q, x, maxlen) ==
  IF Len(q) < maxlen THEN Append(q, x) ELSE Append(Tail(q), x)

\* (mutation of clear: the cached messages survive)
ClearKeepsMessages(st) ==
  [st EXCEPT !.user = NoneObj,
             !.sequence = None,
             !.session_id = None,
             !.servers = EmptyDict,
             !.voice_clients = EmptyDict,
             !.private_channels = EmptyDict,
             !.private_channels_by_user = EmptyDict]

\* ConnectionState.clear: every field of the cache back to empty
clear(st) ==
  [st EXCEPT !.user = NoneObj,
             !.sequence = None,
             !.session_id = None,
             !.servers = EmptyDict,
             !.voice_clients = EmptyDict,
             !.private_channels = EmptyDict,
             !.private_channels_by_user = EmptyDict,
             !.messages = << >>]

\* ConnectionState.__init__: the fields clear() sets, plus max_messages
NewConnectionState(max_messages) ==
  clear([user |-> NoneObj, sequence |-> None, session_id |-> None,
         servers |-> EmptyDict, voice_clients |-> EmptyDict,
         private_channels |-> EmptyDict, private_channels_by_user |-> EmptyDict,
         messages |-> << >>, max_messages |-> max_messages])

\* (mutation of add_private_channel: the index by user is not written)
AddPrivateChannelByIdOnly(st, channel) ==
  [st EXCEPT !.private_channels = DictSet(@, channel.id, channel)]

\* ConnectionState._add_private_channel: both indices are written
add_private_channel(st, channel) ==
  [st EXCEPT !.private_channels = DictSet(@, channel.id, channel),
             !.private_channels_by_user = DictSet(@, channel.user.id, channel)]

\* ConnectionState._remove_private_channel: both indices are popped
remove_private_channel(st, channel) ==
  [st EXCEPT !.private_channels = DictPop(@, channel.id),
             !.private_channels_by_user = DictPop(@, channel.user.id)]

\* ConnectionState._get_private_channel
get_private_channel(st, channel_id) == Get(st.private_channels, channel_id, NoneObj)

\* ConnectionState._get_private_channel_by_user
get_private_channel_by_user(st, user_id) ==
  Get(st.private_channels_by_user, user_id, NoneObj)

\* ConnectionState._add_server_from_data: Server(**guild), stored under its id
add_server_from_data(st, guild) ==
  [st EXCEPT !.servers = DictSet(@, guild.id, guild)]

\* ConnectionState.get_channel: a server's channel first, then a private one
get_channel(st, id) ==
  IF id = None THEN NoneObj
  ELSE IF \E s \in DOMAIN st.servers : id \in st.servers[s].channels
       THEN [kind |-> "channel", id |-> id,
             server |-> CHOOSE s \in DOMAIN st.servers : id \in st.servers[s].channels]
       ELSE IF id \in DOMAIN st.private_channels
            THEN [kind |-> "private", id |-> id, server |-> None]
            ELSE NoneObj

\* the loops of parse_ready, one element at a time, in payload order
RECURSIVE AddServers(_, _)
AddServers(st, guilds) ==
  IF guilds = << >> THEN st
  ELSE AddServers(add_server_from_data(st, Head(guilds)), Tail(guilds))

RECURSIVE AddPrivateChannels(_, _)
AddPrivateChannels(st, pms) ==
  IF pms = << >> THEN st
  ELSE AddPrivateChannels(
         add_private_channel(st, [id |-> Head(pms).id, user |-> Head(pms).recipient]),
         Tail(pms))

\* no join_voice_channel call was made and no VoiceClient exists
NoVoice == [calls |-> << >>, clients |-> << >>]

\* ConnectionState before parse_ready: no _ready_state attribute, no chunk
\* listener, no ReadyState object, chunk future or task yet
NoReadyState ==
  [state |-> 0, states |-> << >>, futures |-> << >>, listeners |-> << >>,
   tasks |-> << >>]

\* Server.large: the flag the guild payload carries, false without one
large(server) == Get(server, "large", FALSE)

\* ReadyState(launch=asyncio.Event(), servers=servers): the event starts clear
ReadyState(servers) == [launch |-> FALSE, servers |-> servers]

\* a task compat.create_task made of coroutine `name`, before its first step;
\* `launch` is the ReadyState whose event a _delay_ready task holds, `servers`
\* the staged servers it found when it left its loop, `splits`
\* the chunker calls it has left, `chunks` the futures it waits for, `server`
\* and `unavailable` the arguments of a _chunk_and_dispatch task ("False" or
\* "None"); `disturbed` is history: whether a guild-create staged a server
\* since the task last went to sleep
NewTask(name, server, unavailable) ==
  [name |-> name, pc |-> "start", launch |-> 0, servers |-> << >>,
   splits |-> << >>, chunks |-> << >>,
   server |-> server, unavailable |-> unavailable, exc |-> "", disturbed |-> FALSE]

\* self._ready_state = ...: a new ReadyState object becomes the attribute
SetReadyState(rd, servers) ==
  [rd EXCEPT !.states = Append(@, ReadyState(servers)), !.state = Len(rd.states) + 1]

\* ConnectionState.parse_ready: a new ReadyState staging the large servers of
\* the payload, the user, servers and private channels of the payload, and a
\* _delay_ready task
parse_ready(st, data) ==
  LET st1 == [st EXCEPT !.user = data.user]
      st2 == AddServers(st1, data.guilds)
      st3 == AddPrivateChannels(st2, data.private_channels)
      rd1 == SetReadyState(ready, SelectSeq(data.guilds, large))
  IN [st |-> st3, events |-> << >>,
      ready |-> [rd1 EXCEPT !.tasks = Append(@, NewTask("_delay_ready", NoneObj, "None"))]]

\* Message(channel=channel, **data): the fields of the payload; the author
\* when the payload names one
Message(channel, data) ==
  IF "author" \in DOMAIN data
  THEN [id |-> data.id, channel |-> channel, author |-> data.author,
        content |-> Get(data, "content", ""), embeds |-> Get(data, "embeds", << >>)]
  ELSE [id |-> data.id, channel |-> channel,
        content |-> Get(data, "content", ""), embeds |-> Get(data, "embeds", << >>)]

\* Message.server: the server of the message's channel, None for a private
\* or unknown channel
MessageServer(message) ==
  IF message.channel = NoneObj THEN None ELSE message.channel.server

\* ConnectionState.parse_message_create
parse_message_create(st, data) ==
  LET message == Message(get_channel(st, data.channel_id), data)
  IN [st |-> [st EXCEPT !.messages = DequeAppend(@, message, st.max_messages)],
      events |-> <<"message">>]

\* ConnectionState._get_message: the index of the first cached message with
\* this id, 0 for None
get_message(st, msg_id) ==
  IF \E i \in 1..Len(st.messages) : st.messages[i].id = msg_id
  THEN CHOOSE i \in 1..Len(st.messages) :
         /\ st.messages[i].id = msg_id
         /\ \A j \in 1..(i - 1) : st.messages[j].id # msg_id
  ELSE 0

\* deque.remove at a known index
RemoveAt(q, index) ==
  [j \in 1..(Len(q) - 1) |-> IF j < index THEN q[j] ELSE q[j + 1]]

\* ConnectionState.parse_message_delete
parse_message_delete(st, data) ==
  LET found == get_message(st, data.id)
  IN IF found # 0
     THEN [st |-> [st EXCEPT !.messages = RemoveAt(@, found)],
           events |-> <<"message_delete">>]
     ELSE [st |-> st, events |-> << >>]

\* (mutation of EmbedOnlyEdit: the text goes with the embeds)
EmbedOnlyEditDropsContent(message, data) ==
  [message EXCEPT !.embeds = data.embeds, !.content = ""]

\* `message.embeds = data['embeds']`
EmbedOnlyEdit(message, data) == [message EXCEPT !.embeds = data.embeds]

\* ConnectionState.parse_message_update: message_edit is dispatched with the
\* copy taken before the edit and the message after it
parse_message_update(st, data) ==
  LET found == get_message(st, data.id)
      message == st.messages[found]
      edited == IF "content" \notin DOMAIN data
                THEN EmbedOnlyEdit(message, data)
                ELSE Message(message.channel, data)
  IN IF found = 0
     THEN [st |-> st, events |-> << >>, exc |-> ""]
     ELSE IF "content" \notin DOMAIN data /\ "embeds" \notin DOMAIN data
     THEN [st |-> st, events |-> << >>, exc |-> "KeyError"]
     ELSE [st |-> [st EXCEPT !.messages[found] = edited],
           events |-> <<[name |-> "message_edit", before |-> message, after |-> edited]>>,
           exc |-> ""]

\* the deque parse_guild_delete rebuilds: the messages not of this server
RECURSIVE NotOfServer(_, _)
NotOfServer(q, server_id) ==
  IF q = << >> THEN << >>
  ELSE IF MessageServer(Head(q)) = server_id THEN NotOfServer(Tail(q), server_id)
  ELSE <<Head(q)>> \o NotOfServer(Tail(q), server_id)

\* ConnectionState.parse_guild_delete
parse_guild_delete(st, data) ==
  IF data.id \notin DOMAIN st.servers
  THEN [st |-> st, events |-> << >>]
  ELSE IF Get(data, "unavailable", FALSE)
  THEN [st |-> [st EXCEPT !.servers[data.id] = DictSet(@, "unavailable", TRUE)],
        events |-> <<"server_unavailable">>]
  ELSE [st |-> [st EXCEPT !.messages = NotOfServer(@, data.id),
                          !.servers = DictPop(@, data.id)],
        events |-> <<"server_remove">>]

\* ConnectionState.parse_user_update
parse_user_update(st, data) ==
  [st |-> [st EXCEPT !.user = data], events |-> << >>]

\* ConnectionState.parse_channel_create
parse_channel_create(st, data) ==
  IF "is_private" \in DOMAIN data /\ data.is_private
  THEN [st |-> add_private_channel(st, [id |-> data.id, user |-> data.recipient]),
        events |-> <<"channel_create">>]
  ELSE IF data.guild_id \in DOMAIN st.servers
       THEN [st |-> [st EXCEPT !.servers[data.guild_id].channels = @ \cup {data.id}],
             events |-> <<"channel_create">>]
       ELSE [st |-> st, events |-> <<"channel_create">>]

\* ConnectionState._get_server: the server, or None
get_server(st, id) == Get(st.servers, id, NoneObj)

\* Server.default_role: the role that has the server's own id, if the server
\* has it among its roles
default_role(server) ==
  IF \E i \in 1..Len(server.roles) : server.roles[i] = server.id
  THEN server.id ELSE None

\* the roles of `ids` that the server has, in the order of ids
RECURSIVE KnownRoles(_, _)
KnownRoles(server, ids) ==
  IF ids = << >> THEN << >>
  ELSE IF \E i \in 1..Len(server.roles) : server.roles[i] = Head(ids)
       THEN <<Head(ids)>> \o KnownRoles(server, Tail(ids))
       ELSE KnownRoles(server, Tail(ids))

\* sorted(roles, key=lambda r: int(r.id))
SortRoles(roles) == SortSeq(roles, LAMBDA a, b : a < b)

\* Member(server=server, **data): the fields of the payload, with the
\* defaults of a member whose payload lacks them
Member(data, roles) ==
  [id |-> data.user.id,
   name |-> Get(data.user, "username", ""),
   discriminator |-> Get(data.user, "discriminator", ""),
   avatar |-> Get(data.user, "avatar", ""),
   bot |-> Get(data.user, "bot", FALSE),
   nick |-> Get(data, "nick", ""),
   status |-> Get(data, "status", "offline"),
   game |-> Get(data, "game", ""),
   joined_at |-> Get(data, "joined_at", None),
   roles |-> roles]

\* ConnectionState._make_member: the default role first, then the roles of
\* the payload the server knows, sorted by id; sorting raises when the server
\* has no default role (`None.id`)
make_member(server, data) ==
  LET roles == <<default_role(server)>> \o KnownRoles(server, Get(data, "roles", << >>))
  IN IF default_role(server) = None
     THEN [exc |-> "AttributeError", member |-> NoneObj]
     ELSE [exc |-> "", member |-> Member(data, SortRoles(roles))]

\* ConnectionState.parse_guild_member_add: no test that the server is cached
parse_guild_member_add(st, data) ==
  LET server == get_server(st, data.guild_id)
      made == make_member(server, data)
  IN IF server = NoneObj
     THEN [st |-> st, events |-> << >>, exc |-> "AttributeError"]
     ELSE IF made.exc # ""
     THEN [st |-> st, events |-> << >>, exc |-> made.exc]
     ELSE [st |-> [st EXCEPT
                     !.servers[server.id].members = DictSet(@, made.member.id, made.member),
                     !.servers[server.id].member_count = @ + 1],
           events |-> <<"member_join">>, exc |-> ""]

\* (mutation of parse_guild_member_remove: the declared count is left alone)
ParseGuildMemberRemoveKeepsCount(st, data) ==
  LET server == get_server(st, data.guild_id)
  IN IF server # NoneObj /\ data.user.id \in DOMAIN server.members
     THEN [st |-> [st EXCEPT !.servers[server.id].members = DictPop(@, data.user.id)],
           events |-> <<"member_remove">>, exc |-> ""]
     ELSE [st |-> st, events |-> << >>, exc |-> ""]

\* ConnectionState.parse_guild_member_remove
parse_guild_member_remove(st, data) ==
  LET server == get_server(st, data.guild_id)
  IN IF server # NoneObj /\ data.user.id \in DOMAIN server.members
     THEN [st |-> [st EXCEPT
                     !.servers[server.id].members = DictPop(@, data.user.id),
                     !.servers[server.id].member_count = @ - 1],
           events |-> <<"member_remove">>, exc |-> ""]
     ELSE [st |-> st, events |-> << >>, exc |-> ""]

\* data.get('unavailable') == value, for a payload with or without the key
Unavailable(data, value) == "unavailable" \in DOMAIN data /\ data.unavailable = value

\* ConnectionState._get_create_server: a cached server that became available
\* takes the payload, any other is added from it
get_create_server(st, data) ==
  IF Unavailable(data, FALSE) /\ get_server(st, data.id) # NoneObj
  THEN [st EXCEPT !.servers[data.id] = data]
  ELSE add_server_from_data(st, data)

\* `state.launch.clear(); state.servers.append(server)` on the ReadyState that
\* is the attribute; history: the sleeping _delay_ready tasks are disturbed
StageServer(rd, server) ==
  [rd EXCEPT !.states[rd.state].launch = FALSE,
             !.states[rd.state].servers = Append(@, server),
             !.tasks = [i \in DOMAIN rd.tasks |->
                          IF rd.tasks[i].name = "_delay_ready" /\ rd.tasks[i].pc = "sleep"
                          THEN [rd.tasks[i] EXCEPT !.disturbed = TRUE]
                          ELSE rd.tasks[i]]]

\* ConnectionState.parse_guild_create: a large server that became available
\* is staged while there is a _ready_state; any other large server gets a
\* _chunk_and_dispatch task; a small one is dispatched at once
parse_guild_create(st, data) ==
  LET st1 == get_create_server(st, data)
      server == st1.servers[data.id]
      name == IF Unavailable(data, FALSE) THEN "server_available" ELSE "server_join"
  IN IF Unavailable(data, TRUE)
     THEN [st |-> st, events |-> << >>, exc |-> "", ready |-> ready]
     ELSE IF ~large(server)
     THEN [st |-> st1, events |-> <<name>>, exc |-> "", ready |-> ready]
     ELSE IF Unavailable(data, FALSE) /\ ready.state # 0
     THEN [st |-> st1, events |-> << >>, exc |-> "", ready |-> StageServer(ready, server)]
     ELSE [st |-> st1, events |-> << >>, exc |-> "",
           ready |-> [ready EXCEPT !.tasks =
                        Append(@, NewTask("_chunk_and_dispatch", server,
                                          IF Unavailable(data, FALSE) THEN "False"
                                          ELSE "None"))]]

(* ------------------- presences, roles and member chunks --------------- *)
\* ConnectionState.parse_presence_update: status and game are taken from the
\* payload, None ("") when it has none; name and avatar only when the payload
\* has them. A member the server does not have is made from the payload if
\* the payload names the user.
parse_presence_update(st, data) ==
  LET server == get_server(st, Get(data, "guild_id", None))
      user == data.user
      known == user.id \in DOMAIN server.members
      made == make_member(server, data)
      member == IF known THEN server.members[user.id] ELSE made.member
      updated == [member EXCEPT !.status = Get(data, "status", ""),
                                !.game = Get(data, "game", ""),
                                !.name = Get(user, "username", @),
                                !.avatar = Get(user, "avatar", @)]
  IN IF server = NoneObj
     THEN [st |-> st, events |-> << >>, exc |-> ""]
     ELSE IF ~known /\ "username" \notin DOMAIN user
     THEN [st |-> st, events |-> << >>, exc |-> ""]
     ELSE IF ~known /\ made.exc # ""
     THEN [st |-> st, events |-> << >>, exc |-> made.exc]
     ELSE [st |-> [st EXCEPT !.servers[server.id].members = DictSet(@, user.id, updated)],
           events |-> <<"member_update">>, exc |-> ""]

\* the roles parse_guild_member_update gives a member: the default role, then
\* the server's roles whose id the payload lists, in the server's order
UpdatedRoles(server, ids) ==
  <<default_role(server)>>
    \o SelectSeq(server.roles, LAMBDA r : \E i \in 1..Len(ids) : ids[i] = r)

\* ConnectionState.parse_guild_member_update: no test that the server is
\* cached; the member is changed in place, field after field, so a payload
\* that lacks a field the code indexes leaves it changed up to that field
parse_guild_member_update(st, data) ==
  LET server == get_server(st, Get(data, "guild_id", None))
      user == data.user
      member == server.members[user.id]
      m1 == [member EXCEPT !.name = user.username]
      m2 == [m1 EXCEPT !.discriminator = user.discriminator]
      m3 == [m2 EXCEPT !.avatar = user.avatar, !.bot = Get(user, "bot", FALSE),
                       !.nick = Get(data, "nick", @)]
      m4 == [m3 EXCEPT !.roles = <<default_role(server)>>]
      m5 == [m3 EXCEPT !.roles = SortRoles(UpdatedRoles(server, data.roles))]
      With(m) == [st EXCEPT !.servers[server.id].members = DictSet(@, user.id, m)]
  IN IF server = NoneObj
     THEN [st |-> st, events |-> << >>, exc |-> "AttributeError"]
     ELSE IF user.id \notin DOMAIN server.members
     THEN [st |-> st, events |-> << >>, exc |-> ""]
     ELSE IF "username" \notin DOMAIN user
     THEN [st |-> st, events |-> << >>, exc |-> "KeyError"]
     ELSE IF "discriminator" \notin DOMAIN user
     THEN [st |-> With(m1), events |-> << >>, exc |-> "KeyError"]
     ELSE IF "avatar" \notin DOMAIN user
     THEN [st |-> With(m2), events |-> << >>, exc |-> "KeyError"]
     ELSE IF server.roles # << >> /\ "roles" \notin DOMAIN data
     THEN [st |-> With(m4), events |-> << >>, exc |-> "KeyError"]
     ELSE IF default_role(server) = None
     THEN [st |-> With(m4), events |-> << >>, exc |-> "AttributeError"]
     ELSE [st |-> With(m5), events |-> <<"member_update">>, exc |-> ""]

\* ConnectionState.parse_guild_role_create: no test that the server is
\* cached; the role is appended to the server's roles
parse_guild_role_create(st, data) ==
  LET server == get_server(st, Get(data, "guild_id", None))
      role == Get(Get(data, "role", EmptyDict), "id", None)
  IN IF server = NoneObj
     THEN [st |-> st, events |-> << >>, exc |-> "AttributeError"]
     ELSE [st |-> [st EXCEPT !.servers[server.id].roles = Append(@, role)],
           events |-> <<"server_role_create">>, exc |-> ""]

\* utils.find over a list of roles: the index of the first role with the id,
\* 0 if there is none
FindRole(roles, role_id) ==
  IF \E i \in 1..Len(roles) : roles[i] = role_id
  THEN CHOOSE i \in 1..Len(roles) :
         roles[i] = role_id /\ \A j \in 1..(i - 1) : roles[j] # role_id
  ELSE 0

\* ConnectionState.parse_guild_role_delete: the role leaves the server's
\* roles; nothing else of the server is touched
parse_guild_role_delete(st, data) ==
  LET server == get_server(st, Get(data, "guild_id", None))
      index == FindRole(server.roles, Get(data, "role_id", None))
  IN IF server = NoneObj \/ index = 0
     THEN [st |-> st, events |-> << >>, exc |-> ""]
     ELSE [st |-> [st EXCEPT !.servers[server.id].roles = RemoveAt(@, index)],
           events |-> <<"server_role_delete">>, exc |-> ""]

RECURSIVE ChunkListenerLoopNoBreak(_, _, _, _, _, _)
RECURSIVE ChunkListenerLoop(_, _, _, _, _, _)
\* (mutation of ChunkListenerLoop: the loop goes on after the first listener
\* of the server)
ChunkListenerLoopNoBreak(listeners, index, futs, removed, server_id, result) ==
  IF index > Len(listeners)
  THEN [futs |-> futs, removed |-> removed]
  ELSE LET listener == listeners[index]
       IN IF futs[listener.future].state = "CANCELLED"
          THEN ChunkListenerLoopNoBreak(listeners, index + 1, futs,
                                        Append(removed, index), server_id, result)
          ELSE IF listener.guild_id = server_id
          THEN ChunkListenerLoopNoBreak(
                 listeners, index + 1,
                 [futs EXCEPT ![listener.future] = Resolved(result)],
                 Append(removed, index), server_id, result)
          ELSE ChunkListenerLoopNoBreak(listeners, index + 1, futs, removed,
                                        server_id, result)

\* the loop of process_listeners over self._listeners for a chunk of server
\* `server_id`, from listener `index` on: cancelled futures are marked for
\* removal, the first listener of the server gets the result and ends the loop
ChunkListenerLoop(listeners, index, futs, removed, server_id, result) ==
  IF index > Len(listeners)
  THEN [futs |-> futs, removed |-> removed]
  ELSE LET listener == listeners[index]
       IN IF futs[listener.future].state = "CANCELLED"
          THEN ChunkListenerLoop(listeners, index + 1, futs, Append(removed, index),
                                 server_id, result)
          ELSE IF listener.guild_id = server_id
          THEN [futs |-> [futs EXCEPT ![listener.future] = Resolved(result)],
                removed |-> Append(removed, index)]
          ELSE ChunkListenerLoop(listeners, index + 1, futs, removed, server_id, result)

\* ConnectionState.process_listeners(ListenerType.chunk, server, result)
process_listeners(rd, server_id, result) ==
  LET loop == ChunkListenerLoop(rd.listeners, 1, rd.futures, << >>, server_id, result)
  IN [rd EXCEPT !.futures = loop.futs,
                !.listeners = DeleteReversed(rd.listeners, loop.removed).entries]

\* the loop of parse_guild_members_chunk over the members of the payload: a
\* member is stored unless the server has one of that id that has a join date
RECURSIVE AddChunkMembers(_, _, _)
AddChunkMembers(st, server_id, members) ==
  IF members = << >> THEN [st |-> st, exc |-> ""]
  ELSE LET server == st.servers[server_id]
           made == make_member(server, Head(members))
           existing == Get(server.members, made.member.id, NoneObj)
       IN IF made.exc # "" THEN [st |-> st, exc |-> made.exc]
          ELSE IF existing = NoneObj \/ existing.joined_at = None
          THEN AddChunkMembers(
                 [st EXCEPT !.servers[server_id].members =
                              DictSet(@, made.member.id, made.member)],
                 server_id, Tail(members))
          ELSE AddChunkMembers(st, server_id, Tail(members))

\* ConnectionState.parse_guild_members_chunk: no test that the server is
\* cached; the members are stored, then the first chunk listener of the
\* server is resolved with the number of members
parse_guild_members_chunk(st, data) ==
  LET server == get_server(st, Get(data, "guild_id", None))
      members == Get(data, "members", << >>)
      added == AddChunkMembers(st, server.id, members)
  IN IF server = NoneObj
     THEN [st |-> st, events |-> << >>, exc |-> "AttributeError"]
     ELSE IF added.exc # ""
     THEN [st |-> added.st, events |-> << >>, exc |-> added.exc]
     ELSE [st |-> added.st, events |-> << >>, exc |-> "",
           ready |-> process_listeners(ready, server.id, Len(members))]

\* ConnectionState._get_voice_client, None (-1) when the server has none
get_voice_client(st, guild_id) == Get(st.voice_clients, guild_id, None)

\* ConnectionState._add_voice_client
add_voice_client(st, guild_id, v) ==
  [st EXCEPT !.voice_clients = DictSet(@, guild_id, v)]

\* ConnectionState.parse_voice_state_update: nothing for a server that is
\* not cached; for a cached one the channel of the client's own voice client
\* follows the payload, and voice_state_update is dispatched when the server
\* has the member
parse_voice_state_update(st, data) ==
  LET server == get_server(st, Get(data, "guild_id", None))
      user_id == Get(data, "user_id", None)
      v == get_voice_client(st, server.id)
      channel_id == Get(data, "channel_id", None)
      channel == IF channel_id \in server.channels THEN channel_id ELSE None
  IN IF server = NoneObj
     THEN [st |-> st, events |-> << >>, exc |-> ""]
     ELSE IF st.user = NoneObj
     THEN [st |-> st, events |-> << >>, exc |-> "AttributeError"]
     ELSE [st |-> st,
           events |-> IF Get(server.members, user_id, NoneObj) # NoneObj
                      THEN <<"voice_state_update">> ELSE << >>,
           exc |-> "",
           voice |-> IF user_id = st.user.id /\ v # None
                     THEN [voice EXCEPT !.clients[v].channel = channel]
                     ELSE voice]

\* the event names ConnectionState has a parse_<name> method for, as far as
\* the frames of this model go
Handled ==
  {"READY", "MESSAGE_CREATE", "USER_UPDATE", "CHANNEL_CREATE",
   "GUILD_MEMBER_ADD", "GUILD_MEMBER_REMOVE",
   "MESSAGE_UPDATE", "MESSAGE_DELETE", "GUILD_DELETE",
   "PRESENCE_UPDATE", "GUILD_MEMBER_UPDATE", "GUILD_ROLE_CREATE",
   "GUILD_ROLE_DELETE", "GUILD_MEMBERS_CHUNK", "GUILD_CREATE",
   "VOICE_STATE_UPDATE"}

\* getattr(self._connection, 'parse_' + event.lower())(data)
RunParser(st, event, data) ==
  CASE event = "READY" -> parse_ready(st, data)
    [] event = "MESSAGE_CREATE" -> parse_message_create(st, data)
    [] event = "USER_UPDATE" -> parse_user_update(st, data)
    [] event = "CHANNEL_CREATE" -> parse_channel_create(st, data)
    [] event = "GUILD_MEMBER_ADD" -> parse_guild_member_add(st, data)
    [] event = "GUILD_MEMBER_REMOVE" -> parse_guild_member_remove(st, data)
    [] event = "MESSAGE_UPDATE" -> parse_message_update(st, data)
    [] event = "MESSAGE_DELETE" -> parse_message_delete(st, data)
    [] event = "GUILD_DELETE" -> parse_guild_delete(st, data)
    [] event = "PRESENCE_UPDATE" -> parse_presence_update(st, data)
    [] event = "GUILD_MEMBER_UPDATE" -> parse_guild_member_update(st, data)
    [] event = "GUILD_ROLE_CREATE" -> parse_guild_role_create(st, data)
    [] event = "GUILD_ROLE_DELETE" -> parse_guild_role_delete(st, data)
    [] event = "GUILD_MEMBERS_CHUNK" -> parse_guild_members_chunk(st, data)
    [] event = "GUILD_CREATE" -> parse_guild_create(st, data)
    [] event = "VOICE_STATE_UPDATE" -> parse_voice_state_update(st, data)

\* the exception a parser raised, "" if none
ExcOf(parsed) == Get(parsed, "exc", "")

(* ----------------------- DiscordWebSocket (gateway.py) ---------------- *)
Socket(state, code) == [state |-> state, code |-> code]

\* (mutation of IdentifyPayload: the stored session is sent along)
IdentifyPayloadOfSession ==
  [op |-> IDENTIFY,
   d |-> [token |-> "token", properties |-> "discord.py",
          compress |-> TRUE, large_threshold |-> 250, v |-> 3,
          session_id |-> connection.session_id, seq |-> connection.sequence]]

\* DiscordWebSocket.identify: the IDENTIFY payload
IdentifyPayload ==
  [op |-> IDENTIFY,
   d |-> [token |-> "token", properties |-> "discord.py",
          compress |-> TRUE, large_threshold |-> 250, v |-> 3]]

\* (mutation of can_handle_close: 1015 counts as recoverable too)
CanHandleCloseThrough1015(code) ==
  code \in {4006, 4008, 4009} \/ code \in 1001..1015

\* DiscordWebSocket._can_handle_close
can_handle_close(code) ==
  code \in {4006, 4008, 4009} \/ code \in 1001..1014

\* KeepAliveHandler.stop on the handle `ka` (0 is None: close() skips it)
StopKeepAlive(drv, ka) ==
  IF ka = 0 THEN drv ELSE [drv EXCEPT ![ka] = "stopped"]

\* DiscordWebSocket.close: stop the keep-alive, close the socket
close(c) ==
  [drv |-> StopKeepAlive(drivers[c], keep_alive[c]),
   sock |-> IF sock[c].state = "open" THEN Socket("closed", NormalClose) ELSE sock[c]]

\* received_message, from `event = msg.get('t')` on: a DISPATCH frame.
\* `st1` is the cache after the sequence update, `r` what the frame has left
\* so far.
DispatchFrame(c, msg, st1, r) ==
  LET event == msg.t
      data == msg.d
      is_ready == event = "READY"
      st2 == IF is_ready
             THEN [clear(st1) EXCEPT !.sequence = msg.s, !.session_id = data.session_id]
             ELSE st1
      starts == is_ready \/ event = "RESUMED"
      drv2 == IF starts THEN Append(r.drv, "running") ELSE r.drv
      ka2 == IF starts THEN Len(drv2) ELSE r.ka
      parsed == IF event \in Handled THEN RunParser(st2, event, data)
                ELSE [st |-> st2, events |-> << >>]
      rdy2 == Get(parsed, "ready", r.rdy)
      vc2 == Get(parsed, "voice", r.vc)
      loop == ListenerLoop(r.entries, 1, r.futs, << >>, event, data)
      del == DeleteReversed(r.entries, loop.removed)
  IN IF is_ready /\ "s" \notin DOMAIN msg
     THEN [r EXCEPT !.st = clear(st1), !.exc = "KeyError"]
     ELSE IF ExcOf(parsed) # ""
     THEN [r EXCEPT !.st = parsed.st, !.ka = ka2, !.drv = drv2, !.exc = ExcOf(parsed),
                    !.events = r.events \o parsed.events, !.rdy = rdy2, !.vc = vc2]
     ELSE IF loop.exc # ""
     THEN [r EXCEPT !.st = parsed.st, !.ka = ka2, !.drv = drv2, !.futs = loop.futs,
                    !.exc = loop.exc, !.events = r.events \o parsed.events,
                    !.rdy = rdy2, !.vc = vc2]
     ELSE [r EXCEPT !.st = parsed.st, !.ka = ka2, !.drv = drv2, !.futs = loop.futs,
                    !.entries = del.entries, !.exc = del.exc,
                    !.events = r.events \o parsed.events, !.rdy = rdy2, !.vc = vc2]

\* (mutation of UpdateSequence: the sequence is taken only from the frames
\* whose event has a parser)
UpdateSequenceOfParsedOnly(st, msg) ==
  IF "s" \in DOMAIN msg /\ msg.op = DISPATCH /\ msg.t \in Handled
  THEN [st EXCEPT !.sequence = msg.s] ELSE st

\* the cache after `if 's' in msg: state.sequence = msg['s']`
UpdateSequence(st, msg) ==
  IF "s" \in DOMAIN msg THEN [st EXCEPT !.sequence = msg.s] ELSE st

\* (mutation of InvalidateSession: the whole cache is dropped)
InvalidateSessionClears(st) == clear(st)

\* the cache after `state.sequence = None; state.session_id = None`
InvalidateSession(st) == [st EXCEPT !.sequence = None, !.session_id = None]

\* DiscordWebSocket.received_message on websocket c: what it leaves of the
\* cache, of c's keep-alive, socket and listeners and of the futures, the
\* exception it raises ("" if none) and the application events it dispatches
received_message(c, msg) ==
  LET r == [st |-> connection, ka |-> keep_alive[c], drv |-> drivers[c],
            sock |-> sock[c], entries |-> dispatch_listeners[c], futs |-> future,
            exc |-> "", events |-> <<"socket_raw_receive", "socket_response">>,
            rdy |-> ready, vc |-> voice]
      st1 == UpdateSequence(connection, msg)
      op == msg.op
  IN IF op = RECONNECT
     THEN [r EXCEPT !.st = st1, !.drv = close(c).drv, !.sock = close(c).sock,
                    !.exc = "ReconnectWebSocket"]
     ELSE IF op = INVALIDATE_SESSION
     THEN [r EXCEPT !.st = InvalidateSession(st1)]
     ELSE IF op # DISPATCH
     THEN [r EXCEPT !.st = st1]
     ELSE DispatchFrame(c, msg, st1, r)

(* ----------------------------- Client (client.py) --------------------- *)
\* Client.__init__: no message listener, the ready event clear; `calls` is
\* history: the wait_for_message calls made so far; `requests` are the
\* _retry_helper calls in progress or done
NewClient ==
  [listeners |-> << >>, is_ready |-> FALSE, calls |-> << >>, requests |-> << >>]

\* Client.handle_ready, which Client.dispatch calls for the event ready
handle_ready(cl) == [cl EXCEPT !.is_ready = TRUE]

\* Client.dispatch of the events of a step, for the handle_ methods that take
\* no argument
ClientDispatch(cl, events) ==
  IF \E j \in DOMAIN events : events[j] = "ready" THEN handle_ready(cl) ELSE cl

\* the predicate of wait_for_message on a message: the filters that were
\* given, joined by `and`, which leaves out what follows a false one; the
\* check is called last; "raise" when evaluating it raises
message_predicate(filters, message) ==
  IF filters.author # NoneObj /\ Get(message, "author", NoneObj) # filters.author
  THEN "false"
  ELSE IF filters.content # "None" /\ message.content # filters.content
  THEN "false"
  ELSE IF filters.channel # NoneObj /\ message.channel = NoneObj
  THEN "raise"
  ELSE IF filters.channel # NoneObj /\ message.channel.id # filters.channel.id
  THEN "false"
  ELSE IF filters.check # "None" THEN PredEval(filters.check, message)
  ELSE "true"

\* (mutation of HandleListener: a cancelled future is given the message)
HandleListenerResolvesCancelled(fut, filters, message) ==
  IF message_predicate(filters, message) = "true" THEN Resolved(message) ELSE fut

\* the body of the loop of Client.handle_message for one listener: what
\* becomes of its future
HandleListener(fut, filters, message) ==
  IF fut.state = "CANCELLED" THEN fut
  ELSE IF message_predicate(filters, message) = "raise" THEN Failed("Exception")
  ELSE IF message_predicate(filters, message) = "true" THEN Resolved(message)
  ELSE fut

\* Client.handle_message: a listener stays when its future is pending
\* afterwards; the others are deleted
handle_message(cl, futs, message) ==
  LET after(e) == HandleListener(futs[e.future], e.condition, message)
      Stays(e) == after(e).state = "PENDING"
  IN [client |-> [cl EXCEPT !.listeners = SelectSeq(@, Stays)],
      futs |-> [f \in DOMAIN futs |->
                 IF \E j \in DOMAIN cl.listeners : cl.listeners[j].future = f
                 THEN HandleListener(futs[f],
                        cl.listeners[CHOOSE j \in DOMAIN cl.listeners :
                                       cl.listeners[j].future = f].condition,
                        message)
                 ELSE futs[f]]]

\* Client.dispatch of the events a frame's parser dispatched: handle_message
\* for the event message, with the Message parse_message_create made
DispatchMessage(cl, futs, event, events, st) ==
  IF event = "MESSAGE_CREATE" /\ \E j \in DOMAIN events : events[j] = "message"
  THEN handle_message(cl, futs, st.messages[Len(st.messages)])
  ELSE [client |-> cl, futs |-> futs]

\* the floor and default of Client.__init__ for max_messages
DefaultMaxMessages == 5000

\* what `last` holds after a step that received no frame
Step(kind) ==
  [kind |-> kind, op |-> None, t |-> "", s |-> None, exc |-> "", events |-> << >>,
   before |-> NoneObj, d |-> NoneObj]

\* history of the frames processed on the current websocket: the largest s
\* among them, how many there were (counted up to two), and whether every
\* frame so far was a DISPATCH frame carrying an s not below the ones before it
NoneSeen == [max_s |-> None, n |-> 0, ordered |-> TRUE]

See(msg) ==
  IF msg.op = DISPATCH /\ "s" \in DOMAIN msg
  THEN [max_s |-> IF msg.s > seen.max_s THEN msg.s ELSE seen.max_s,
        n |-> IF seen.n < 2 THEN seen.n + 1 ELSE 2,
        ordered |-> seen.ordered /\ msg.s >= seen.max_s]
  ELSE [seen EXCEPT !.ordered = FALSE]

\* the floor of Client.__init__ for the max_messages option
MinMaxMessages == 100

\* Client.__init__: the capacity of the message cache for a max_messages option
ClientMaxMessages(option) ==
  IF option = None \/ option < MinMaxMessages THEN DefaultMaxMessages ELSE option

\* Client.__init__ with a max_messages option
InitWith(option) ==
  /\ ws = 0
  /\ nconn = 0
  /\ is_closed = FALSE
  /\ pc = "init"
  /\ raised = ""
  /\ sock = [c \in Conns |-> Socket("none", 0)]
  /\ keep_alive = [c \in Conns |-> 0]
  /\ drivers = [c \in Conns |-> << >>]
  /\ sent = [c \in Conns |-> << >>]
  /\ dispatch_listeners = [c \in Conns |-> << >>]
  /\ future = << >>
  /\ nfut = 0
  /\ connection = NewConnectionState(ClientMaxMessages(option))
  /\ last = Step("init")
  /\ seen = NoneSeen
  /\ ready = NoReadyState
  /\ voice = NoVoice
  /\ threads = [c \in Conns |-> << >>]
  /\ client = NewClient

\* Client.__init__ without options
Init == InitWith(None)

\* DiscordWebSocket.from_client: a new websocket, connected, IDENTIFY sent
from_client ==
  /\ nconn < MaxConns
  /\ nconn' = nconn + 1
  /\ ws' = nconn + 1
  /\ sock' = [sock EXCEPT ![nconn + 1] = Socket("open", 0)]
  /\ sent' = [sent EXCEPT ![nconn + 1] = <<IdentifyPayload>>]
  /\ seen' = NoneSeen

\* Client.connect, up to the first test of its loop
Connect ==
  /\ pc = "init"
  /\ from_client
  /\ pc' = IF is_closed THEN "done" ELSE "poll"
  /\ last' = Step("connect")
  /\ UNCHANGED <<client, threads, voice, ready, is_closed, raised, keep_alive, drivers, dispatch_listeners,
                 future, nfut, connection>>

\* Client.connect: `except ReconnectWebSocket`, then the loop's test
Reconnect ==
  /\ pc = "reconnect"
  /\ from_client
  /\ pc' = IF is_closed THEN "done" ELSE "poll"
  /\ last' = Step("reconnect")
  /\ UNCHANGED <<client, threads, voice, ready, is_closed, raised, keep_alive, drivers, dispatch_listeners,
                 future, nfut, connection>>

\* Client.connect: what the loop does with the exception poll_event raised
AfterPoll(exc) ==
  IF exc = "" THEN "poll"
  ELSE IF exc = "ReconnectWebSocket" THEN "reconnect"
  ELSE "raised"

\* one round of the loop of Client.connect on an open socket: poll_event
\* receives frame msg and runs received_message on it
PollEvent(msg) ==
  /\ pc = "poll"
  /\ sock[ws].state = "open"
  /\ LET Received(r) ==
           /\ connection' = r.st
           /\ keep_alive' = [keep_alive EXCEPT ![ws] = r.ka]
           /\ drivers' = [drivers EXCEPT ![ws] = r.drv]
           /\ sock' = [sock EXCEPT ![ws] = r.sock]
           /\ dispatch_listeners' = [dispatch_listeners EXCEPT ![ws] = r.entries]
           /\ future' = DispatchMessage(client, r.futs, Get(msg, "t", ""), r.events, r.st).futs
           /\ client' = DispatchMessage(client, r.futs, Get(msg, "t", ""), r.events, r.st).client
           /\ ready' = r.rdy
           /\ voice' = r.vc
           /\ pc' = AfterPoll(r.exc)
           /\ raised' = IF AfterPoll(r.exc) = "raised" THEN r.exc ELSE raised
           /\ last' = [kind |-> "recv", op |-> msg.op,
                       t |-> IF "t" \in DOMAIN msg THEN msg.t ELSE "",
                       s |-> IF "s" \in DOMAIN msg THEN msg.s ELSE None,
                       exc |-> r.exc, events |-> r.events, before |-> connection,
                       d |-> msg.d]
     IN Received(received_message(ws, msg))
  /\ seen' = See(msg)
  /\ UNCHANGED <<threads, ws, nconn, is_closed, sent, nfut>>

\* received_message, up to `msg = json.loads(msg)`, on a frame as it comes off
\* the socket: binary frames are inflated and decoded, then the text is
\* parsed; the exception this raises, "" if the frame decodes
DecodeError(raw) ==
  IF raw.binary /\ ~raw.deflated THEN "zlib.error"
  ELSE IF ~raw.json THEN "ValueError"
  ELSE ""

\* one round of the loop of Client.connect on an open socket that delivers a
\* frame which does not decode: received_message has dispatched
\* socket_raw_receive when the decoding raises; neither poll_event nor
\* Client.connect has a handler for the exception
PollUndecodable(raw) ==
  /\ pc = "poll"
  /\ sock[ws].state = "open"
  /\ DecodeError(raw) # ""
  /\ pc' = AfterPoll(DecodeError(raw))
  /\ raised' = DecodeError(raw)
  /\ last' = [Step("recv_raw") EXCEPT !.exc = DecodeError(raw),
                                      !.events = <<"socket_raw_receive">>,
                                      !.before = connection]
  /\ UNCHANGED <<client, threads, voice, ready, ws, nconn, is_closed, sock, keep_alive, drivers, sent,
                 dispatch_listeners, future, nfut, connection, seen>>

\* the remote end closes the current socket with close code `code`
RemoteClose(code) ==
  /\ ws # 0
  /\ sock[ws].state = "open"
  /\ sock' = [sock EXCEPT ![ws] = Socket("closed", code)]
  /\ last' = Step("remote_close")
  /\ UNCHANGED <<client, threads, voice, ready, ws, nconn, is_closed, pc, raised, keep_alive, drivers, sent,
                 dispatch_listeners, future, nfut, connection, seen>>

\* Client.close: the voice clients go, the websocket is closed if open
ClientClose ==
  /\ connection' = [connection EXCEPT !.voice_clients = EmptyDict]
  /\ IF ws # 0 /\ sock[ws].state = "open"
     THEN /\ drivers' = [drivers EXCEPT ![ws] = close(ws).drv]
          /\ sock' = [sock EXCEPT ![ws] = close(ws).sock]
     ELSE UNCHANGED <<drivers, sock>>
  /\ is_closed' = TRUE
  /\ client' = [client EXCEPT !.is_ready = FALSE]

\* one round of the loop of Client.connect on a closed socket: recv raises
\* ConnectionClosed, poll_event turns it into ReconnectWebSocket or into
\* discord's ConnectionClosed, on which the client closes itself and re-raises
\* unless the code is 1000
PollClosed ==
  /\ pc = "poll"
  /\ sock[ws].state = "closed"
  /\ IF can_handle_close(sock[ws].code)
     THEN /\ pc' = "reconnect"
          /\ UNCHANGED <<client, is_closed, raised, drivers, sock, connection>>
     ELSE /\ IF is_closed
             THEN UNCHANGED <<client, is_closed, drivers, sock, connection>>
             ELSE ClientClose
          /\ pc' = IF sock[ws].code # NormalClose THEN "raised" ELSE "done"
          /\ raised' = IF sock[ws].code # NormalClose THEN "ConnectionClosed" ELSE raised
  /\ last' = [Step("poll_closed") EXCEPT
                !.exc = IF can_handle_close(sock[ws].code) THEN "ReconnectWebSocket"
                        ELSE "ConnectionClosed"]
  /\ UNCHANGED <<threads, voice, ready, ws, nconn, keep_alive, sent, dispatch_listeners, future, nfut, seen>>

\* the application calls Client.close
Close ==
  /\ ~is_closed
  /\ ClientClose
  /\ last' = Step("close")
  /\ UNCHANGED <<threads, voice, ready, ws, nconn, pc, raised, keep_alive, sent, dispatch_listeners,
                 future, nfut, seen>>

\* Client.start_private_message: the channel the HTTP API answered with is
\* added to the cache
StartPrivateMessage(id, user) ==
  /\ connection' = add_private_channel(connection, [id |-> id, user |-> user])
  /\ last' = [Step("start_private_message") EXCEPT !.before = connection]
  /\ UNCHANGED <<client, threads, voice, ready, ws, nconn, is_closed, pc, raised, sock, keep_alive, drivers, sent,
                 dispatch_listeners, future, nfut, seen>>

\* a cached private channel is dropped through _remove_private_channel
RemovePrivateChannel(id) ==
  /\ id \in DOMAIN connection.private_channels
  /\ connection' = remove_private_channel(connection, connection.private_channels[id])
  /\ last' = [Step("remove_private_channel") EXCEPT !.before = connection]
  /\ UNCHANGED <<client, threads, voice, ready, ws, nconn, is_closed, pc, raised, sock, keep_alive, drivers, sent,
                 dispatch_listeners, future, nfut, seen>>

\* a caller registers a waiter on the current websocket: self.ws.wait_for
WaitFor(event, predicate, result) ==
  /\ ws # 0
  /\ nfut < MaxWaiters
  /\ nfut' = nfut + 1
  /\ future' = Append(future, NewFuture)
  /\ dispatch_listeners' = [dispatch_listeners EXCEPT ![ws] =
        Append(@, [event |-> event, predicate |-> predicate, result |-> result,
                   future |-> nfut + 1])]
  /\ last' = Step("wait_for")
  /\ UNCHANGED <<client, threads, voice, ready, ws, nconn, is_closed, pc, raised, sock, keep_alive, drivers, sent,
                 connection, seen>>

\* the registrant, or the timeout of asyncio.wait_for on it, cancels future i
Cancel(i) ==
  /\ i \in 1..nfut
  /\ future[i].state = "PENDING"
  /\ future' = [future EXCEPT ![i].state = "CANCELLED"]
  /\ last' = Step("cancel")
  /\ UNCHANGED <<client, threads, voice, ready, ws, nconn, is_closed, pc, raised, sock, keep_alive, drivers, sent,
                 dispatch_listeners, nfut, connection, seen>>

\* Client.wait_for_message up to `asyncio.wait_for(future, timeout)`: the
\* listener is appended; history: the call, with the number of messages
\* dispatched before it
WaitForMessage(filters) ==
  /\ nfut < MaxWaiters
  /\ nfut' = nfut + 1
  /\ future' = Append(future, NewFuture)
  /\ client' = [client EXCEPT
                  !.listeners = Append(@, [condition |-> filters, future |-> nfut + 1]),
                  !.calls = Append(@, [condition |-> filters, future |-> nfut + 1,
                                       start |-> Len(connection.messages)])]
  /\ last' = Step("wait_for_message")
  /\ UNCHANGED <<threads, voice, ready, ws, nconn, is_closed, pc, raised, sock,
                 keep_alive, drivers, sent, dispatch_listeners, connection, seen>>

(* -------------------- the tasks of ConnectionState -------------------- *)
\* the servers of one REQUEST_MEMBERS command of _delay_ready
ChunkSize == 75

\* the members of one GUILD_MEMBERS_CHUNK event
MembersPerChunk == 1000

\* math.ceil(a / b) for a >= 0, b > 0
Ceil(a, b) == (a + b - 1) \div b

RECURSIVE SplitsOverlapping(_)
RECURSIVE Splits(_)
\* (mutation of Splits: the last server of a full split is named again in
\* the next one)
SplitsOverlapping(servers) ==
  IF servers = << >> THEN << >>
  ELSE IF Len(servers) <= ChunkSize THEN <<servers>>
  ELSE <<SubSeq(servers, 1, ChunkSize)>>
         \o SplitsOverlapping(SubSeq(servers, ChunkSize, Len(servers)))

\* [servers[i:i + 75] for i in range(0, len(servers), 75)]
Splits(servers) ==
  IF servers = << >> THEN << >>
  ELSE IF Len(servers) <= ChunkSize THEN <<servers>>
  ELSE <<SubSeq(servers, 1, ChunkSize)>>
         \o Splits(SubSeq(servers, ChunkSize + 1, Len(servers)))

\* ConnectionState.receive_chunk for each id of guild_ids, in order: a new
\* future with a chunk listener for that server
ReceiveChunks(rd, guild_ids) ==
  [rd EXCEPT
     !.futures = @ \o [j \in DOMAIN guild_ids |-> NewFuture],
     !.listeners = @ \o [j \in DOMAIN guild_ids |->
                           [type |-> "chunk", guild_id |-> guild_ids[j],
                            future |-> Len(rd.futures) + j]]]

\* the ids ConnectionState.chunks_needed calls receive_chunk with for each
\* server of `servers`, in order: ceil(member_count / 1000) times the server's
RECURSIVE ChunkGuilds(_)
ChunkGuilds(servers) ==
  IF servers = << >> THEN << >>
  ELSE IF Len(servers) = 1
  THEN [j \in 1..Ceil(servers[1].member_count, MembersPerChunk) |-> servers[1].id]
  ELSE ChunkGuilds(SubSeq(servers, 1, Len(servers) \div 2))
         \o ChunkGuilds(SubSeq(servers, Len(servers) \div 2 + 1, Len(servers)))

\* chunks.extend(self.chunks_needed(server)) for each server of `servers`
ChunksNeeded(rd, servers) == ReceiveChunks(rd, ChunkGuilds(servers))

\* Client.request_offline_members: the payload for one server (its id) or
\* for several (the list of their ids)
RequestMembersPayload(guild_id) ==
  [op |-> REQUEST_MEMBERS, d |-> [guild_id |-> guild_id, query |-> "", limit |-> 0]]

\* DiscordWebSocket.send_as_json on the current websocket: the frame goes out
\* on an open socket; on a closed one the ConnectionClosed of the websocket
\* library is swallowed when the close code can be handled and raised as
\* discord's ConnectionClosed when not
SendAsJson(payload) ==
  IF sock[ws].state = "open"
  THEN [sent |-> [sent EXCEPT ![ws] = Append(@, payload)], exc |-> ""]
  ELSE [sent |-> sent,
        exc |-> IF can_handle_close(sock[ws].code) THEN "" ELSE "ConnectionClosed"]

\* DiscordWebSocket.send_as_json on websocket c, which need not be the
\* current one: as SendAsJson; `closed` tells that `super().send` raised the
\* ConnectionClosed of the websocket library
SendAsJsonOn(c, payload) ==
  IF sock[c].state = "open"
  THEN [sent |-> [sent EXCEPT ![c] = Append(@, payload)], exc |-> "", closed |-> FALSE]
  ELSE [sent |-> sent, closed |-> TRUE,
        exc |-> IF can_handle_close(sock[c].code) THEN "" ELSE "ConnectionClosed"]

\* the ids of the servers of a split
ServerIds(split) == [i \in DOMAIN split |-> split[i].id]

\* a task that ended with exception e
TaskRaised(rd, i, e) == [rd EXCEPT !.tasks[i].pc = "done", !.tasks[i].exc = e]

\* the end of _delay_ready: `del self._ready_state`, which raises when the
\* attribute is gone, then `self.dispatch('ready')`
DelayReadyFinish(rd, i) ==
  IF rd.state = 0
  THEN [rd |-> TaskRaised(rd, i, "AttributeError"), events |-> << >>]
  ELSE [rd |-> [rd EXCEPT !.state = 0, !.tasks[i].pc = "done"], events |-> <<"ready">>]

\* _delay_ready after its last chunker call: wait for the chunks if there are
\* any, finish if not
DelayReadyAfterSplits(rd, i) ==
  IF rd.tasks[i].chunks # << >>
  THEN [rd |-> [rd EXCEPT !.tasks[i].pc = "wait"], events |-> << >>]
  ELSE DelayReadyFinish(rd, i)

\* _delay_ready from the test of its while loop on: while the event it holds
\* is clear it sets it and sleeps; once it finds it set it takes the servers
\* of the ReadyState that is then the attribute, registers their chunk
\* listeners, cuts the splits and goes on to the chunker calls
DelayReadyLoop(rd, i) ==
  LET launch == rd.tasks[i].launch
      servers == rd.states[rd.state].servers
      rd1 == ChunksNeeded(rd, servers)
      chunks == [j \in 1..(Len(rd1.futures) - Len(rd.futures)) |-> Len(rd.futures) + j]
      rd2 == [rd1 EXCEPT !.tasks[i].servers = servers, !.tasks[i].chunks = chunks,
                         !.tasks[i].splits = Splits(servers), !.tasks[i].pc = "chunker"]
  IN IF ~rd.states[launch].launch
     THEN [rd |-> [rd EXCEPT !.states[launch].launch = TRUE, !.tasks[i].pc = "sleep",
                             !.tasks[i].disturbed = FALSE],
           events |-> << >>]
     ELSE IF rd.state = 0
     THEN [rd |-> TaskRaised(rd, i, "AttributeError"), events |-> << >>]
     ELSE IF servers = << >>
     THEN DelayReadyAfterSplits(rd2, i)
     ELSE [rd |-> rd2, events |-> << >>]

\* what a step of a task leaves in `last`
TaskStep(name, events) == [Step("task") EXCEPT !.t = name, !.events = events]

\* the loop runs a _delay_ready task for the first time: it takes the event
\* of the ReadyState that is the attribute, then enters its loop
DelayReadyStart(i) ==
  /\ i \in DOMAIN ready.tasks
  /\ ready.tasks[i].name = "_delay_ready"
  /\ ready.tasks[i].pc = "start"
  /\ LET r == IF ready.state = 0
              THEN [rd |-> TaskRaised(ready, i, "AttributeError"), events |-> << >>]
              ELSE DelayReadyLoop([ready EXCEPT !.tasks[i].launch = ready.state], i)
     IN /\ ready' = r.rd
        /\ last' = TaskStep("_delay_ready", r.events)
  /\ client' = ClientDispatch(client, last'.events)
  /\ UNCHANGED <<threads, voice, ws, nconn, is_closed, pc, raised, sock, keep_alive, drivers, sent,
                 dispatch_listeners, future, nfut, connection, seen>>

\* asyncio.sleep(2) of a _delay_ready task is over: back to the loop's test
DelayReadyWake(i) ==
  /\ i \in DOMAIN ready.tasks
  /\ ready.tasks[i].name = "_delay_ready"
  /\ ready.tasks[i].pc = "sleep"
  /\ LET r == DelayReadyLoop(ready, i)
     IN /\ ready' = r.rd
        /\ last' = TaskStep("_delay_ready", r.events)
  /\ client' = ClientDispatch(client, last'.events)
  /\ UNCHANGED <<threads, voice, ws, nconn, is_closed, pc, raised, sock, keep_alive, drivers, sent,
                 dispatch_listeners, future, nfut, connection, seen>>

\* `yield from self.chunker(split)` of a _delay_ready task for its next split
DelayReadyChunker(i) ==
  /\ i \in DOMAIN ready.tasks
  /\ ready.tasks[i].name = "_delay_ready"
  /\ ready.tasks[i].pc = "chunker"
  /\ LET split == Head(ready.tasks[i].splits)
         out == SendAsJson(RequestMembersPayload(ServerIds(split)))
         rd1 == [ready EXCEPT !.tasks[i].splits = Tail(@)]
         r == IF out.exc # ""
              THEN [rd |-> TaskRaised(rd1, i, out.exc), events |-> << >>]
              ELSE IF Tail(ready.tasks[i].splits) # << >>
              THEN [rd |-> rd1, events |-> << >>]
              ELSE DelayReadyAfterSplits(rd1, i)
     IN /\ sent' = out.sent
        /\ ready' = r.rd
        /\ last' = TaskStep("_delay_ready", r.events)
  /\ client' = ClientDispatch(client, last'.events)
  /\ UNCHANGED <<threads, voice, ws, nconn, is_closed, pc, raised, sock, keep_alive, drivers,
                 dispatch_listeners, future, nfut, connection, seen>>

\* asyncio.wait(chunks) of a _delay_ready task returns: every chunk future
\* of the task is done
DelayReadyWait(i) ==
  /\ i \in DOMAIN ready.tasks
  /\ ready.tasks[i].name = "_delay_ready"
  /\ ready.tasks[i].pc = "wait"
  /\ \A j \in DOMAIN ready.tasks[i].chunks :
       ready.futures[ready.tasks[i].chunks[j]].state # "PENDING"
  /\ LET r == DelayReadyFinish(ready, i)
     IN /\ ready' = r.rd
        /\ last' = TaskStep("_delay_ready", r.events)
  /\ client' = ClientDispatch(client, last'.events)
  /\ UNCHANGED <<threads, voice, ws, nconn, is_closed, pc, raised, sock, keep_alive, drivers, sent,
                 dispatch_listeners, future, nfut, connection, seen>>

\* the end of _chunk_and_dispatch: server_available for a server that became
\* available, server_join for any other
ChunkAndDispatchFinish(rd, i) ==
  [rd |-> [rd EXCEPT !.tasks[i].pc = "done"],
   events |-> IF rd.tasks[i].unavailable = "False" THEN <<"server_available">>
              ELSE <<"server_join">>]

\* the loop runs a _chunk_and_dispatch task for the first time:
\* `yield from self.chunker(server)`
ChunkAndDispatchStart(i) ==
  /\ i \in DOMAIN ready.tasks
  /\ ready.tasks[i].name = "_chunk_and_dispatch"
  /\ ready.tasks[i].pc = "start"
  /\ LET out == SendAsJson(RequestMembersPayload(ready.tasks[i].server.id))
     IN /\ sent' = out.sent
        /\ ready' = IF out.exc # "" THEN TaskRaised(ready, i, out.exc)
                    ELSE [ready EXCEPT !.tasks[i].pc = "sent"]
        /\ last' = TaskStep("_chunk_and_dispatch", << >>)
  /\ UNCHANGED <<client, threads, voice, ws, nconn, is_closed, pc, raised, sock, keep_alive, drivers,
                 dispatch_listeners, future, nfut, connection, seen>>

\* _chunk_and_dispatch after the chunker call: the chunk listeners of the
\* server are registered, then waited for if there are any
ChunkAndDispatchRegister(i) ==
  /\ i \in DOMAIN ready.tasks
  /\ ready.tasks[i].name = "_chunk_and_dispatch"
  /\ ready.tasks[i].pc = "sent"
  /\ LET rd1 == ChunksNeeded(ready, <<ready.tasks[i].server>>)
         chunks == [j \in 1..(Len(rd1.futures) - Len(ready.futures)) |->
                      Len(ready.futures) + j]
         r == IF chunks # << >>
              THEN [rd |-> [rd1 EXCEPT !.tasks[i].chunks = chunks, !.tasks[i].pc = "wait"],
                    events |-> << >>]
              ELSE ChunkAndDispatchFinish(rd1, i)
     IN /\ ready' = r.rd
        /\ last' = TaskStep("_chunk_and_dispatch", r.events)
  /\ UNCHANGED <<client, threads, voice, ws, nconn, is_closed, pc, raised, sock, keep_alive, drivers, sent,
                 dispatch_listeners, future, nfut, connection, seen>>

\* asyncio.wait(chunks) of a _chunk_and_dispatch task returns
ChunkAndDispatchWait(i) ==
  /\ i \in DOMAIN ready.tasks
  /\ ready.tasks[i].name = "_chunk_and_dispatch"
  /\ ready.tasks[i].pc = "wait"
  /\ \A j \in DOMAIN ready.tasks[i].chunks :
       ready.futures[ready.tasks[i].chunks[j]].state # "PENDING"
  /\ LET r == ChunkAndDispatchFinish(ready, i)
     IN /\ ready' = r.rd
        /\ last' = TaskStep("_chunk_and_dispatch", r.events)
  /\ UNCHANGED <<client, threads, voice, ws, nconn, is_closed, pc, raised, sock, keep_alive, drivers, sent,
                 dispatch_listeners, future, nfut, connection, seen>>

\* one step of a _delay_ready task
DelayReadyRun ==
  \E i \in DOMAIN ready.tasks :
    \/ DelayReadyStart(i)
    \/ DelayReadyWake(i)
    \/ DelayReadyChunker(i)
    \/ DelayReadyWait(i)

\* one step of a _chunk_and_dispatch task
ChunkAndDispatchRun ==
  \E i \in DOMAIN ready.tasks :
    \/ ChunkAndDispatchStart(i)
    \/ ChunkAndDispatchRegister(i)
    \/ ChunkAndDispatchWait(i)

\* the event loop runs a task it was handed before it returns to the receive
\* loop: no frame is processed while a task has not had its first step
TasksStarted == \A i \in DOMAIN ready.tasks : ready.tasks[i].pc # "start"

(* ----------------------- what the gateway sends ----------------------- *)
\* payloads of the events waiters are registered for
Payloads == {[id |-> 1], [id |-> 2]}

\* a READY payload of a client in no server
ReadyPayload(session_id) ==
  [user |-> [id |-> 1], session_id |-> session_id, guilds |-> << >>,
   private_channels |-> << >>, heartbeat_interval |-> 41250]

ResumedPayload == [heartbeat_interval |-> 41250]

\* the server completes the handshake of a websocket once: READY (or RESUMED)
\* comes on a websocket that has no keep-alive yet
MaySend(msg) ==
  /\ ws # 0
  /\ (msg.op = DISPATCH /\ msg.t \in {"READY", "RESUMED"}) => keep_alive[ws] = 0

(* ------------- the waiter registry on the gateway: Spec --------------- *)
\* the frames: two event names, one with a parser on the cache and one without
WaiterFrames ==
  [op : {DISPATCH}, s : {1}, t : {"VOICE_SERVER_UPDATE"}, d : Payloads]
  \cup [op : {DISPATCH}, s : {1}, t : {"USER_UPDATE"}, d : {[id |-> 1]}]

\* the wait_for calls: <<event, predicate, result>>
Registrations ==
  {<<"VOICE_SERVER_UPDATE", "always", "fn">>,
   <<"VOICE_SERVER_UPDATE", "is1", "None">>,
   <<"VOICE_SERVER_UPDATE", "raises1", "None">>,
   <<"USER_UPDATE", "always", "None">>}

Next ==
  \/ Connect
  \/ \E msg \in WaiterFrames : MaySend(msg) /\ PollEvent(msg)
  \/ \E reg \in Registrations : WaitFor(reg[1], reg[2], reg[3])
  \/ \E i \in Futures : Cancel(i)

Spec == Init /\ [][Next]_vars

\* the listeners of websocket c, as a set
Listeners(c) == {dispatch_listeners[c][i] : i \in 1..Len(dispatch_listeners[c])}

\* C2 (as claimed): when a DISPATCH of event E is processed, every pending
\* waiter for E whose predicate is true on the payload is resolved with the
\* payload, or with result(payload) if it has a transform; every pending
\* waiter for another event, or whose predicate is false on the payload,
\* stays pending and stays registered.
C2_MatchResolvesExactlyThatWaiter ==
  [][\A msg \in WaiterFrames : PollEvent(msg) =>
       \A e \in Listeners(ws) :
         /\ (/\ e.event = msg.t
             /\ future[e.future].state = "PENDING"
             /\ PredEval(e.predicate, msg.d) = "true")
              => future'[e.future] = Resolved(ResultOf(e.result, msg.d))
         /\ (/\ future[e.future].state = "PENDING"
             /\ (e.event # msg.t \/ PredEval(e.predicate, msg.d) = "false"))
              => (future'[e.future].state = "PENDING" /\ e \in Listeners(ws)')]_vars

\* C3 (as claimed): a waiter a dispatch has resolved, with a result or with a
\* failure, is no longer registered (so no later dispatch evaluates it again).
C3_ResolvedWaiterIsRemoved ==
  \A c \in Conns : \A e \in Listeners(c) : future[e.future].state # "FINISHED"

\* the listeners of websocket c without entry e, in registration order
RECURSIVE Without(_, _)
Without(entries, e) ==
  IF entries = << >> THEN << >>
  ELSE IF Head(entries) = e THEN Without(Tail(entries), e)
  ELSE <<Head(entries)>> \o Without(Tail(entries), e)

\* C4 (as claimed): when the predicate of a pending waiter raises in a
\* dispatch of its event, the waiter is failed with the raised error and
\* removed, every other waiter ends as it would have without the raising
\* waiter, and the receive loop goes on.
C4_RaisingPredicateFailsOnlyItsWaiter ==
  [][\A msg \in WaiterFrames : PollEvent(msg) =>
       \A e \in Listeners(ws) :
         (/\ e.event = msg.t
          /\ future[e.future].state = "PENDING"
          /\ PredEval(e.predicate, msg.d) = "raise")
         => /\ future'[e.future] = Failed("PredicateError")
            /\ e \notin Listeners(ws)'
            /\ LET alone == ListenerLoop(Without(dispatch_listeners[ws], e), 1, future,
                                         << >>, msg.t, msg.d)
               IN \A o \in Listeners(ws) \ {e} : future'[o.future] = alone.futs[o.future]
            /\ pc' = "poll"]_vars

C11_UnhandledEventIsNeverFatal ==
  [][\A msg \in WaiterFrames : (PollEvent(msg) /\ msg.t \notin Handled) =>
       /\ connection' = [connection EXCEPT !.sequence = msg.s]
       /\ last'.exc = ""
       /\ pc' = "poll"
       /\ \A e \in Listeners(ws) :
            (/\ e.event = msg.t
             /\ future[e.future].state = "PENDING"
             /\ PredEval(e.predicate, msg.d) = "true")
            => future'[e.future] = Resolved(ResultOf(e.result, msg.d))]_vars

(* ------------------ the session's life cycle: SpecSession ------------- *)
SessionFrames ==
  [op : {DISPATCH}, s : {1}, t : {"READY"}, d : {ReadyPayload(1)}]
  \cup [op : {DISPATCH}, s : {1}, t : {"RESUMED"}, d : {ResumedPayload}]
  \cup [op : {DISPATCH}, s : {1}, t : {"USER_UPDATE"}, d : {[id |-> 2]}]
  \cup [op : {RECONNECT, INVALIDATE_SESSION, HEARTBEAT}, d : {NoneObj}]

CloseCodes == {1000, 1001, 1014, 1015, 4004, 4006, 4008, 4009, 4010}

NextSession ==
  \/ Connect
  \/ Reconnect
  \/ \E msg \in SessionFrames : MaySend(msg) /\ PollEvent(msg)
  \/ \E code \in CloseCodes : RemoteClose(code)
  \/ PollClosed
  \/ Close

SpecSession == Init /\ [][NextSession]_vars

\* C9: a RECONNECT frame on an established session stops the session's
\* heartbeat driver, closes its socket and raises ReconnectWebSocket; the
\* client's next step opens a new websocket, on which the first frame sent is
\* an IDENTIFY that has no field for a sequence or a session_id and holds
\* neither of the stored values.
C9_ReconnectReidentifies ==
  [][/\ \A msg \in SessionFrames : (PollEvent(msg) /\ msg.op = RECONNECT) =>
          /\ \A i \in DOMAIN drivers'[ws] : drivers'[ws][i] = "stopped"
          /\ sock'[ws] = Socket("closed", NormalClose)
          /\ last'.exc = "ReconnectWebSocket"
          /\ pc' = "reconnect"
          /\ ws' = ws
     /\ (pc = "reconnect" /\ (ws' # ws \/ pc' # pc)) => Reconnect
     /\ Reconnect =>
          /\ ws' # ws /\ sock[ws'].state = "none" /\ sock'[ws'].state = "open"
          /\ Len(sent'[ws']) = 1
          /\ sent'[ws'][1].op = IDENTIFY
          /\ DOMAIN sent'[ws'][1].d =
               {"token", "properties", "compress", "large_threshold", "v"}
          /\ connection' = connection]_vars

\* a session with a running heartbeat, a sequence and a session_id got a
\* RECONNECT, and the client has opened the next websocket
C9_Witness ==
  /\ last.kind = "reconnect" /\ ws = 2 /\ pc = "poll"
  /\ drivers[1] = <<"stopped">>
  /\ sock[1] = Socket("closed", NormalClose)
  /\ sock[2].state = "open"
  /\ connection.sequence # None /\ connection.session_id # None
  /\ sent[2] = <<IdentifyPayload>>

\* C10: when polling finds the socket closed with code c: for c in 4006, 4008,
\* 4009 or 1001..1014 poll_event raises ReconnectWebSocket, the client stays
\* open, opens a new websocket and polls on; for any other c poll_event
\* raises ConnectionClosed, the client closes itself, its loop ends (with the
\* error unless c is 1000), and it opens no websocket any more.
C10_CloseCodeDecidesReconnect ==
  [][/\ PollClosed =>
          IF sock[ws].code \in {4006, 4008, 4009} \/ (sock[ws].code >= 1001 /\ sock[ws].code <= 1014)
          THEN /\ last'.exc = "ReconnectWebSocket"
               /\ pc' = "reconnect"
               /\ is_closed' = is_closed
          ELSE /\ last'.exc = "ConnectionClosed"
               /\ is_closed'
               /\ pc' = (IF sock[ws].code = NormalClose THEN "done" ELSE "raised")
               /\ raised' = (IF sock[ws].code = NormalClose THEN raised ELSE "ConnectionClosed")
     /\ (Reconnect /\ ~is_closed) => (pc' = "poll" /\ sock'[ws'].state = "open")
     /\ pc \in {"done", "raised"} => (pc' = pc /\ nconn' = nconn /\ ws' = ws)]_vars

\* a close with a recoverable code was followed by a reconnect, and the new
\* websocket was then closed with another code, which ended the client
C10_Witness ==
  /\ ws = 2
  /\ can_handle_close(sock[1].code) /\ sock[1].code # NormalClose
  /\ sock[2].state = "closed" /\ sock[2].code = 1015
  /\ last.kind = "poll_closed"
  /\ pc = "raised" /\ raised = "ConnectionClosed" /\ is_closed

(* ------------- waiters of a websocket that ends: SpecClose ------------ *)
\* the three ways a websocket ends (RECONNECT, a close by the remote end,
\* Client.close), with waiters registered on it
ClosingFrames ==
  [op : {DISPATCH}, s : {1}, t : {"USER_UPDATE"}, d : {[id |-> 1]}]
  \cup [op : {RECONNECT}, d : {NoneObj}]

ClosingCodes == {1001, 4004}

NextClose ==
  \/ Connect
  \/ Reconnect
  \/ \E msg \in ClosingFrames : MaySend(msg) /\ PollEvent(msg)
  \/ \E code \in ClosingCodes : RemoteClose(code)
  \/ PollClosed
  \/ Close
  \/ WaitFor("USER_UPDATE", "always", "None")
  \/ \E i \in Futures : Cancel(i)

SpecClose == Init /\ [][NextClose]_vars

\* C6 (as claimed): closing a websocket fails or cancels the waiters pending
\* on it, so once the client has replaced a closed websocket by a new one, no
\* waiter registered on the old one is still pending.
C6_ClosedConnectionFailsItsWaiters ==
  \A c \in Conns :
    (sock[c].state = "closed" /\ c # ws)
    => \A e \in Listeners(c) : future[e.future].state # "PENDING"

(* ------------------------ the cache: SpecCache ------------------------ *)
Guild(id, channels) == [id |-> id, channels |-> channels]

\* READY payloads: of a client in no server; with two servers; with one server
\* id twice and two private channels with one recipient
ReadyPayloads ==
  {ReadyPayload(1),
   [ReadyPayload(1) EXCEPT !.guilds = <<Guild(1, {11}), Guild(2, {})>>],
   [ReadyPayload(2) EXCEPT
      !.guilds = <<Guild(1, {11}), Guild(1, {12})>>,
      !.private_channels = <<[id |-> 21, recipient |-> [id |-> 5]],
                             [id |-> 22, recipient |-> [id |-> 5]]>>]}

CacheFrames ==
  [op : {DISPATCH}, s : {1}, t : {"READY"}, d : ReadyPayloads]
  \cup [op : {DISPATCH}, s : {2}, t : {"MESSAGE_CREATE"},
        d : [id : {1}, channel_id : {11, 21}]]
  \cup [op : {DISPATCH}, s : {2}, t : {"CHANNEL_CREATE"},
        d : {[id |-> 23, is_private |-> TRUE, recipient |-> [id |-> 6]]}]
  \cup [op : {DISPATCH}, s : {2}, t : {"USER_UPDATE"}, d : {[id |-> 2]}]
  \cup [op : {RECONNECT}, d : {NoneObj}]

\* the server sends MaxMsgs messages at most between two READYs
MayCache(msg) ==
  (msg.op = DISPATCH /\ msg.t = "MESSAGE_CREATE") => Len(connection.messages) < MaxMsgs

NextCache ==
  \/ Connect
  \/ Reconnect
  \/ \E msg \in CacheFrames : MaySend(msg) /\ MayCache(msg) /\ PollEvent(msg)

SpecCache == Init /\ [][NextCache]_vars

\* the index of the element of xs that a loop `for x in xs: d[x.id] = x`
\* leaves under id k: the last one with that id
LastWithId(xs, k) ==
  CHOOSE i \in 1..Len(xs) : xs[i].id = k /\ \A j \in (i + 1)..Len(xs) : xs[j].id # k

\* the same for the private channels and the id of their recipient
LastWithRecipient(pms, u) ==
  CHOOSE i \in 1..Len(pms) :
    pms[i].recipient.id = u /\ \A j \in (i + 1)..Len(pms) : pms[j].recipient.id # u

\* the cache a READY frame determines
ReadyCache(msg, max_messages) ==
  LET guilds == msg.d.guilds
      pms == msg.d.private_channels
      channel(i) == [id |-> pms[i].id, user |-> pms[i].recipient]
  IN [user |-> msg.d.user,
      sequence |-> msg.s,
      session_id |-> msg.d.session_id,
      servers |-> [k \in {guilds[i].id : i \in 1..Len(guilds)} |->
                     guilds[LastWithId(guilds, k)]],
      voice_clients |-> EmptyDict,
      private_channels |->
        [k \in {pms[i].id : i \in 1..Len(pms)} |-> channel(LastWithId(pms, k))],
      private_channels_by_user |->
        [u \in {pms[i].recipient.id : i \in 1..Len(pms)} |->
           channel(LastWithRecipient(pms, u))],
      messages |-> << >>,
      max_messages |-> max_messages]

\* C7: processing a READY frame leaves the cache that the frame determines,
\* with nothing of what it held before (servers, private channels by id and
\* by user, messages, user, sequence, session_id); processing the same frame
\* once more leaves the same cache again.
C7_ReadyReplacesCache ==
  [][\A msg \in CacheFrames : (PollEvent(msg) /\ msg.op = DISPATCH /\ msg.t = "READY") =>
       /\ connection' = ReadyCache(msg, connection.max_messages)
       /\ received_message(ws, msg)'.st = connection']_vars

\* a READY on a reconnect, into a cache that held other servers, private
\* channels, messages, user and session
C7_Witness ==
  /\ last.kind = "recv" /\ last.t = "READY" /\ last.exc = ""
  /\ ws = 2
  /\ last.before.messages # << >>
  /\ last.before.user # connection.user
  /\ last.before.session_id \notin {None, connection.session_id}
  /\ DOMAIN last.before.servers \notin {{}, DOMAIN connection.servers}
  /\ DOMAIN last.before.private_channels \notin {{}, DOMAIN connection.private_channels}
  /\ DOMAIN connection.servers # {}

(* ------------- a session that is invalidated: SpecInvalidate ---------- *)
\* one websocket with waiters on it, whose session is established, fills the
\* cache and is invalidated
InvalidateFrames ==
  [op : {DISPATCH}, s : {1}, t : {"READY"},
   d : {[ReadyPayload(1) EXCEPT
           !.guilds = <<Guild(1, {11})>>,
           !.private_channels = <<[id |-> 21, recipient |-> [id |-> 5]]>>]}]
  \cup [op : {DISPATCH}, s : {2}, t : {"MESSAGE_CREATE"},
        d : {[id |-> 1, channel_id |-> 11]}]
  \cup [op : {DISPATCH}, s : {2}, t : {"USER_UPDATE"}, d : {[id |-> 2]}]
  \cup [op : {INVALIDATE_SESSION}, d : {NoneObj}]

NextInvalidate ==
  \/ Connect
  \/ \E msg \in InvalidateFrames : MaySend(msg) /\ MayCache(msg) /\ PollEvent(msg)
  \/ WaitFor("USER_UPDATE", "always", "None")

SpecInvalidate == Init /\ [][NextInvalidate]_vars

\* C8 (as claimed): an INVALIDATE_SESSION frame nulls sequence and session_id,
\* leaves the rest of the cache, the waiters and their futures as they were,
\* and dispatches no event at all.
C8_InvalidateSessionDispatchesNothing ==
  [][\A msg \in InvalidateFrames : (PollEvent(msg) /\ msg.op = INVALIDATE_SESSION) =>
       /\ connection' = [connection EXCEPT !.sequence = None, !.session_id = None]
       /\ dispatch_listeners' = dispatch_listeners
       /\ future' = future
       /\ last'.events = << >>]_vars

\* C8 (amended): an INVALIDATE_SESSION frame nulls sequence and session_id and
\* leaves the rest of the cache, the waiters and their futures as they were;
\* no parser runs, and the only events dispatched are the two every frame
\* gets, socket_raw_receive and socket_response; the receive loop goes on.
C8_InvalidateSessionKeepsCache ==
  [][\A msg \in InvalidateFrames : (PollEvent(msg) /\ msg.op = INVALIDATE_SESSION) =>
       /\ connection' = [connection EXCEPT !.sequence = None, !.session_id = None]
       /\ dispatch_listeners' = dispatch_listeners
       /\ future' = future
       /\ keep_alive' = keep_alive /\ drivers' = drivers /\ sock' = sock
       /\ last'.events = <<"socket_raw_receive", "socket_response">>
       /\ last'.exc = "" /\ pc' = "poll"]_vars

\* an INVALIDATE_SESSION into a session with a sequence, a session_id, a
\* filled cache and a pending waiter
C8_Witness ==
  /\ last.kind = "recv" /\ last.op = INVALIDATE_SESSION
  /\ last.before.sequence # None /\ last.before.session_id # None
  /\ connection.messages # << >>
  /\ DOMAIN connection.servers # {}
  /\ DOMAIN connection.private_channels # {}
  /\ connection.user # NoneObj
  /\ \E e \in Listeners(ws) : future[e.future].state = "PENDING"

(* ---------------- frames that do not decode: SpecDecode --------------- *)
\* frames as they come off the socket: text or binary, binary ones deflated
\* or not, the text valid JSON or not
RawFrames == [binary : BOOLEAN, deflated : BOOLEAN, json : BOOLEAN]

DecodedFrames ==
  [op : {DISPATCH}, s : {1, 2}, t : {"USER_UPDATE"}, d : Payloads]

NextDecode ==
  \/ Connect
  \/ \E msg \in DecodedFrames : MaySend(msg) /\ PollEvent(msg)
  \/ \E raw \in RawFrames : PollUndecodable(raw)
  \/ WaitFor("USER_UPDATE", "is1", "None")

SpecDecode == Init /\ [][NextDecode]_vars

\* C12 (as claimed): a frame that does not decode is dropped: cache, sequence
\* and waiters stay as they were, no error reaches the caller of
\* Client.connect, and the receive loop polls on.
C12_UndecodableFrameIsDropped ==
  [][\A raw \in RawFrames : PollUndecodable(raw) =>
       /\ connection' = connection
       /\ dispatch_listeners' = dispatch_listeners
       /\ future' = future
       /\ raised' = ""
       /\ pc' = "poll"]_vars

(* ------------------- sequence tracking: SpecSeq ----------------------- *)
Seqs == 0..MaxSeq

SeqFrames ==
  [op : {DISPATCH}, s : Seqs, t : {"USER_UPDATE", "VOICE_SERVER_UPDATE"}, d : {[id |-> 1]}]
  \cup [op : {DISPATCH}, s : Seqs, t : {"READY"}, d : {ReadyPayload(1)}]
  \cup [op : {RECONNECT, HEARTBEAT}, s : Seqs, d : {NoneObj}]
  \cup [op : {INVALIDATE_SESSION}, d : {NoneObj}]

NextSeq ==
  \/ Connect
  \/ \E msg \in SeqFrames : MaySend(msg) /\ PollEvent(msg)
  \/ WaitFor("VOICE_SERVER_UPDATE", "always", "None")
  \/ \E i \in Futures : Cancel(i)

SpecSeq == Init /\ [][NextSeq]_vars

\* C1: as long as the frames a websocket has processed are DISPATCH frames with
\* non-decreasing s, the stored sequence is the largest s among them, whether
\* or not the event names have a parser; and a frame's s is stored before the
\* frame is acted upon: it is the stored sequence also when acting on the frame
\* raised (RECONNECT, a failing listener) or did nothing (an unhandled opcode).
C1_SequenceIsLargestSeen ==
  /\ (seen.ordered /\ seen.n > 0) => connection.sequence = seen.max_s
  /\ (last.kind = "recv" /\ last.s # None /\ last.op # INVALIDATE_SESSION)
       => connection.sequence = last.s

\* two frames or more, the last of an event without parser, s having grown
C1_Witness ==
  /\ seen.ordered /\ seen.n = 2 /\ seen.max_s = MaxSeq
  /\ last.kind = "recv" /\ last.t = "VOICE_SERVER_UPDATE" /\ last.s = MaxSeq
  /\ last.exc = "InvalidStateError"

(* ---------------- servers, members and roles: SpecMembers -------------- *)
\* the users of the member events
UserData(id) == [id |-> id, username |-> "a", avatar |-> "x"]

\* a server as READY delivers it: the default role and one more, one member
\* holding both, one channel
MemberGuild ==
  [id |-> 1, channels |-> {11}, roles |-> <<1, 3>>,
   members |-> DictSet(EmptyDict, 5, Member([user |-> UserData(5)], <<1, 3>>)),
   member_count |-> 1, large |-> FALSE]

MemberFrames ==
  [op : {DISPATCH}, s : {1}, t : {"READY"},
   d : {[ReadyPayload(1) EXCEPT !.guilds = <<MemberGuild>>]}]
  \cup [op : {DISPATCH}, s : {1}, t : {"GUILD_MEMBER_ADD"},
        d : [guild_id : {1}, user : {UserData(5), UserData(7)}, roles : {<< >>, <<3>>}]]
  \cup [op : {DISPATCH}, s : {1}, t : {"GUILD_MEMBER_REMOVE"},
        d : [guild_id : {1}, user : {[id |-> 5], [id |-> 7]}]]

\* the server counts members up to MaxMembers
MayAdd(msg) ==
  (/\ msg.op = DISPATCH
   /\ msg.t = "GUILD_MEMBER_ADD"
   /\ msg.d.guild_id \in DOMAIN connection.servers)
  => connection.servers[msg.d.guild_id].member_count < MaxMembers

NextMembers ==
  \/ Connect
  \/ \E msg \in MemberFrames : MaySend(msg) /\ MayAdd(msg) /\ PollEvent(msg)

SpecMembers == Init /\ [][NextMembers]_vars

\* C13: a GUILD_MEMBER_ADD for a user of a cached server, followed by a
\* GUILD_MEMBER_REMOVE for the same server and user, leaves the server's
\* members without the user and its member count as it was before the add.
C13_AddThenRemoveRestoresCount ==
  [][\A msg \in MemberFrames :
       /\ (/\ PollEvent(msg)
           /\ msg.t = "GUILD_MEMBER_ADD"
           /\ msg.d.guild_id \in DOMAIN connection.servers)
          => LET g == msg.d.guild_id
                 after == parse_guild_member_remove(
                            connection', [guild_id |-> g, user |-> [id |-> msg.d.user.id]]).st
             IN /\ msg.d.user.id \notin DOMAIN after.servers[g].members
                /\ after.servers[g].member_count = connection.servers[g].member_count
       /\ (/\ PollEvent(msg)
           /\ msg.t = "GUILD_MEMBER_REMOVE"
           /\ last.kind = "recv" /\ last.t = "GUILD_MEMBER_ADD"
           /\ last.d.guild_id = msg.d.guild_id
           /\ last.d.user.id = msg.d.user.id
           /\ msg.d.guild_id \in DOMAIN last.before.servers)
          => LET g == msg.d.guild_id
             IN /\ msg.d.user.id \notin DOMAIN connection'.servers[g].members
                /\ connection'.servers[g].member_count
                     = last.before.servers[g].member_count]_vars

\* user 7, whom only a GUILD_MEMBER_ADD can have made a member, was removed
C13_Witness ==
  /\ last.kind = "recv" /\ last.t = "GUILD_MEMBER_REMOVE" /\ last.exc = ""
  /\ last.d.user.id = 7
  /\ 1 \in DOMAIN last.before.servers
  /\ 7 \in DOMAIN last.before.servers[1].members
  /\ 7 \notin DOMAIN connection.servers[1].members
  /\ connection.servers[1].member_count = last.before.servers[1].member_count - 1

(* ------------------- edits of cached messages: SpecEdit ---------------- *)
EditFrames ==
  [op : {DISPATCH}, s : {1}, t : {"READY"},
   d : {[ReadyPayload(1) EXCEPT !.guilds = <<Guild(1, {11})>>]}]
  \cup [op : {DISPATCH}, s : {1}, t : {"MESSAGE_CREATE"},
        d : [id : {1, 2}, channel_id : {11}, content : {"text"}, embeds : {<< >>}]]
  \cup [op : {DISPATCH}, s : {1}, t : {"MESSAGE_UPDATE"},
        d : [id : {1, 2}, channel_id : {11}, embeds : {<<"embed">>}]]
  \cup [op : {DISPATCH}, s : {1}, t : {"MESSAGE_UPDATE"},
        d : [id : {1}, channel_id : {11}, content : {"edited"}, embeds : {<< >>}]]

NextEdit ==
  \/ Connect
  \/ \E msg \in EditFrames : MaySend(msg) /\ MayCache(msg) /\ PollEvent(msg)

SpecEdit == Init /\ [][NextEdit]_vars

MaxStamp == MinMaxMessages + MaxOverflow

DeleteStamps == {4, MinMaxMessages + 1}

EvictReady ==
  [ReadyPayload(1) EXCEPT
     !.guilds = <<Guild(1, {11})>>,
     !.private_channels = <<[id |-> 21, recipient |-> [id |-> 5]]>>]

EvictFrames ==
  [op : {DISPATCH}, s : {0}, t : {"READY"}, d : {EvictReady}]
  \cup {[op |-> DISPATCH, s |-> n, t |-> "MESSAGE_CREATE",
         d |-> [id |-> n, channel_id |-> IF n <= 2 THEN 21 ELSE 11]] : n \in 1..MaxStamp}
  \cup [op : {DISPATCH}, s : DeleteStamps, t : {"MESSAGE_DELETE"},
        d : {[id |-> 1], [id |-> 4]}]
  \cup [op : {DISPATCH}, s : DeleteStamps, t : {"GUILD_DELETE"},
        d : {[id |-> 1], [id |-> 1, unavailable |-> TRUE]}]

\* READY comes first; a MESSAGE_CREATE takes the next stamp, the other frames
\* repeat the last one
MayStamp(msg) ==
  /\ msg.t # "READY" => keep_alive[ws] # 0
  /\ msg.t = "MESSAGE_CREATE" => msg.s = connection.sequence + 1
  /\ msg.t \in {"MESSAGE_DELETE", "GUILD_DELETE"} => msg.s = connection.sequence

InitEvict == InitWith(MinMaxMessages)

NextEvict ==
  \/ Connect
  \/ \E msg \in EvictFrames : MaySend(msg) /\ MayStamp(msg) /\ PollEvent(msg)

SpecEvict == InitEvict /\ [][NextEvict]_vars

\* C15: after every frame the cached messages are max_messages at most and in
\* arrival order; a MESSAGE_CREATE appends its message, and on a full cache
\* it drops the oldest message and nothing else.
C15_MessageCacheIsBounded ==
  [][/\ Len(connection'.messages) <= connection'.max_messages
     /\ connection'.max_messages = connection.max_messages
     /\ \A i \in 1..(Len(connection'.messages) - 1) :
          connection'.messages[i].id < connection'.messages[i + 1].id
     /\ (last'.kind = "recv" /\ last'.t = "MESSAGE_CREATE") =>
          LET old == connection.messages
              new == connection'.messages
          IN /\ new[Len(new)].id = last'.d.id
             /\ IF Len(old) < connection.max_messages
                THEN SubSeq(new, 1, Len(new) - 1) = old
                ELSE SubSeq(new, 1, Len(new) - 1) = Tail(old)]_vars

\* a message arrived in a full cache
C15_Witness ==
  /\ last.kind = "recv" /\ last.t = "MESSAGE_CREATE"
  /\ Len(last.before.messages) = connection.max_messages
  /\ Len(connection.messages) = connection.max_messages
  /\ connection.messages[1] = last.before.messages[2]
  /\ connection.max_messages = MinMaxMessages

(* ------------------- private channels: SpecPrivate --------------------- *)
\* the users this client talks to, one of them under two names over time
Recipients ==
  {[id |-> 5, username |-> "a"], [id |-> 5, username |-> "b"], [id |-> 6, username |-> "a"]}

\* the API has one private channel for a recipient
PrivateId(user) == 20 + user.id

PrivateData(user) == [id |-> PrivateId(user), recipient |-> user]

PrivateFrames ==
  [op : {DISPATCH}, s : {1}, t : {"READY"},
   d : {ReadyPayload(1),
        [ReadyPayload(1) EXCEPT
           !.private_channels = <<PrivateData([id |-> 5, username |-> "a"]),
                                  PrivateData([id |-> 6, username |-> "a"])>>]}]
  \cup {[op |-> DISPATCH, s |-> 2, t |-> "CHANNEL_CREATE",
         d |-> [id |-> PrivateId(u), is_private |-> TRUE, recipient |-> u]] : u \in Recipients}
  \cup [op : {RECONNECT}, d : {NoneObj}]

NextPrivate ==
  \/ Connect
  \/ Reconnect
  \/ \E msg \in PrivateFrames : MaySend(msg) /\ PollEvent(msg)
  \/ \E u \in Recipients : StartPrivateMessage(PrivateId(u), u)
  \/ \E u \in Recipients : RemovePrivateChannel(PrivateId(u))

SpecPrivate == Init /\ [][NextPrivate]_vars

FullUser(id, name) ==
  [id |-> id, username |-> name, discriminator |-> "0001", avatar |-> "x"]

\* the sequence s as a set
Range(s) == {s[i] : i \in DOMAIN s}

\* READY with the server of MemberGuild, then member, presence, chunk and
\* role events of that server
RoleFrames ==
  [op : {DISPATCH}, s : {1}, t : {"READY"},
   d : {[ReadyPayload(1) EXCEPT !.guilds = <<MemberGuild>>]}]
  \cup [op : {DISPATCH}, s : {1}, t : {"GUILD_MEMBER_ADD"},
        d : [guild_id : {1}, user : {FullUser(7, "a")}, roles : {<<3>>},
             joined_at : {1}]]
  \cup [op : {DISPATCH}, s : {1}, t : {"GUILD_MEMBER_UPDATE"},
        d : [guild_id : {1}, user : {FullUser(5, "a")}, roles : {<<3, 4>>}]]
  \cup [op : {DISPATCH}, s : {1}, t : {"GUILD_MEMBERS_CHUNK"},
        d : [guild_id : {1},
             members : {<<[user |-> FullUser(6, "a"), roles |-> <<4>>, joined_at |-> 1]>>}]]
  \cup [op : {DISPATCH}, s : {1}, t : {"PRESENCE_UPDATE"},
        d : [guild_id : {1}, user : {FullUser(8, "a"), [id |-> 5]}, roles : {<<3>>},
             status : {"idle"}]]
  \cup [op : {DISPATCH}, s : {1}, t : {"GUILD_ROLE_CREATE"},
        d : [guild_id : {1}, role : {[id |-> 4]}]]
  \cup [op : {DISPATCH}, s : {1}, t : {"GUILD_ROLE_DELETE"},
        d : [guild_id : {1}, role_id : {3, 4}]]

\* the gateway creates a role of a server once
MayCreateRole(msg) ==
  (/\ msg.op = DISPATCH
   /\ msg.t = "GUILD_ROLE_CREATE"
   /\ msg.d.guild_id \in DOMAIN connection.servers)
  => msg.d.role.id \notin Range(connection.servers[msg.d.guild_id].roles)

NextRoles ==
  \/ Connect
  \/ \E msg \in RoleFrames :
       MaySend(msg) /\ MayAdd(msg) /\ MayCreateRole(msg) /\ PollEvent(msg)

SpecRoles == Init /\ [][NextRoles]_vars

\* C17: every cached member's roles are roles of its server and include the
\* server's default role
C17_MemberRolesAreServerRoles ==
  \A g \in DOMAIN connection.servers :
    \A m \in DOMAIN connection.servers[g].members :
      /\ Range(connection.servers[g].members[m].roles)
           \subseteq Range(connection.servers[g].roles)
      /\ g \in Range(connection.servers[g].members[m].roles)

(* ------------- presence and member updates: SpecPresence --------------- *)
\* a payload key that is there or not
Opt(key, present, value) == IF present THEN key :> value ELSE EmptyDict

\* a server as READY delivers it, with one member that has a nickname, a
\* status, a game and both roles of the server
PresenceGuild ==
  [MemberGuild EXCEPT
     !.members = DictSet(EmptyDict, 5,
                   Member([user |-> FullUser(5, "a"), nick |-> "n", status |-> "idle",
                           game |-> "g", joined_at |-> 1], <<1, 3>>))]

\* PRESENCE_UPDATE payloads for that member, with and without status, game,
\* username and avatar
PresencePayloads ==
  {[guild_id |-> 1, user |-> [id |-> 5] @@ Opt("username", n, "b") @@ Opt("avatar", a, "y")]
     @@ Opt("status", s, "online") @@ Opt("game", g, "h") : n, a, s, g \in BOOLEAN}

\* GUILD_MEMBER_UPDATE payloads for that member, with and without nick, roles,
\* username and avatar
MemberUpdatePayloads ==
  {[guild_id |-> 1,
    user |-> [id |-> 5, discriminator |-> "0001"]
               @@ Opt("username", n, "b") @@ Opt("avatar", a, "y")]
     @@ Opt("nick", k, "m") @@ Opt("roles", r, << >>) : n, a, k, r \in BOOLEAN}

PresenceFrames ==
  [op : {DISPATCH}, s : {1}, t : {"READY"},
   d : {[ReadyPayload(1) EXCEPT !.guilds = <<PresenceGuild>>]}]
  \cup [op : {DISPATCH}, s : {1}, t : {"PRESENCE_UPDATE"}, d : PresencePayloads]
  \cup [op : {DISPATCH}, s : {1}, t : {"GUILD_MEMBER_UPDATE"}, d : MemberUpdatePayloads]

NextPresence ==
  \/ Connect
  \/ \E msg \in PresenceFrames : MaySend(msg) /\ PollEvent(msg)

SpecPresence == Init /\ [][NextPresence]_vars

\* the member a member event is about, in cache st; None if it has none
MemberOf(st, data) ==
  IF data.guild_id \in DOMAIN st.servers
  THEN Get(st.servers[data.guild_id].members, data.user.id, NoneObj)
  ELSE NoneObj

\* C18: a PRESENCE_UPDATE or GUILD_MEMBER_UPDATE for a cached member leaves
\* every field the payload does not carry (status, game, username, avatar,
\* nickname, roles) as it was
C18_AbsentFieldsAreKept ==
  [][(/\ last'.kind = "recv"
      /\ last'.t \in {"PRESENCE_UPDATE", "GUILD_MEMBER_UPDATE"}
      /\ MemberOf(connection, last'.d) # NoneObj)
     => LET old == MemberOf(connection, last'.d)
            new == MemberOf(connection', last'.d)
            data == last'.d
        IN /\ new # NoneObj
           /\ "status" \notin DOMAIN data => new.status = old.status
           /\ "game" \notin DOMAIN data => new.game = old.game
           /\ "username" \notin DOMAIN data.user => new.name = old.name
           /\ "avatar" \notin DOMAIN data.user => new.avatar = old.avatar
           /\ "nick" \notin DOMAIN data => new.nick = old.nick
           /\ "roles" \notin DOMAIN data => new.roles = old.roles]_vars

(* ---------------------- the ready settle: SpecSettle -------------------- *)
\* a large server as the gateway delivers it once it is available
LargeGuild(id) ==
  [id |-> id, channels |-> {}, roles |-> <<id>>, members |-> EmptyDict,
   member_count |-> MembersPerChunk, large |-> TRUE, unavailable |-> FALSE]

\* READY of a client in one large server, the guild-create of a large server
\* that became available, and RECONNECT
SettleFrames ==
  [op : {DISPATCH}, s : {1}, t : {"READY"},
   d : {[ReadyPayload(1) EXCEPT !.guilds = <<LargeGuild(1)>>]}]
  \cup [op : {DISPATCH}, s : {1}, t : {"GUILD_CREATE"}, d : {LargeGuild(2)}]
  \cup [op : {RECONNECT}, d : {NoneObj}]

\* the gateway announces a server the client does not have yet
MayAnnounce(msg) ==
  (msg.op = DISPATCH /\ msg.t = "GUILD_CREATE")
    => msg.d.id \notin DOMAIN connection.servers

\* the gateway sends a chunk for a server a chunk is awaited of
MayChunk(msg) ==
  (msg.op = DISPATCH /\ msg.t = "GUILD_MEMBERS_CHUNK")
    => /\ msg.d.guild_id \in DOMAIN connection.servers
       /\ \E j \in DOMAIN ready.listeners :
            ready.listeners[j].guild_id = msg.d.guild_id

\* the settle phase: the receive loop and the _delay_ready tasks up to their
\* chunk requests
NextSettle ==
  \/ Connect
  \/ Reconnect
  \/ \E msg \in SettleFrames :
       TasksStarted /\ MaySend(msg) /\ MayAnnounce(msg) /\ PollEvent(msg)
  \/ \E i \in DOMAIN ready.tasks :
       DelayReadyStart(i) \/ DelayReadyWake(i) \/ DelayReadyChunker(i)

SpecSettle == Init /\ [][NextSettle]_vars

\* a _delay_ready task is in its settle loop
Settling(rd) ==
  \E i \in DOMAIN rd.tasks :
    rd.tasks[i].name = "_delay_ready" /\ rd.tasks[i].pc \in {"start", "sleep"}

\* C19: a _delay_ready task leaves its settle loop only from a sleep during
\* which no large guild-create with unavailable=false was processed; such a
\* guild-create processed while a task settles appends its server to the
\* staged servers and dispatches neither server_available nor server_join
C19_SettleEndsAfterQuietPeriod ==
  [][/\ \A i \in DOMAIN ready.tasks :
          (/\ ready.tasks[i].name = "_delay_ready"
           /\ ready.tasks[i].pc \in {"start", "sleep"}
           /\ ready'.tasks[i].pc \notin {"start", "sleep"}
           /\ ready'.tasks[i].exc = "")
          => ready.tasks[i].pc = "sleep" /\ ~ready.tasks[i].disturbed
     /\ (/\ last'.kind = "recv" /\ last'.t = "GUILD_CREATE"
         /\ large(last'.d) /\ Unavailable(last'.d, FALSE)
         /\ Settling(ready))
        => /\ ready'.state # 0
           /\ ready'.states[ready'.state].servers
                = Append(ready.states[ready.state].servers, last'.d)
           /\ "server_available" \notin Range(last'.events)
           /\ "server_join" \notin Range(last'.events)]_vars

(* ------------------- the member chunk requests: SpecChunk --------------- *)
\* READY of a client in no server and the guild-creates of the large servers
\* that become available
ChunkFrames ==
  [op : {DISPATCH}, s : {1}, t : {"READY"}, d : {ReadyPayload(1)}]
  \cup [op : {DISPATCH}, s : {1}, t : {"GUILD_CREATE"},
        d : {LargeGuild(g) : g \in 1..MaxStaged}]

\* the gateway announces the servers one after the other, while the client
\* settles
MayAnnounceNext(msg) ==
  (msg.op = DISPATCH /\ msg.t = "GUILD_CREATE")
    => /\ msg.d.id = Cardinality(DOMAIN connection.servers) + 1
       /\ Settling(ready)

\* the receive loop and the _delay_ready task up to its last chunk request
NextChunk ==
  \/ Connect
  \/ \E msg \in ChunkFrames :
       TasksStarted /\ MaySend(msg) /\ MayAnnounceNext(msg) /\ PollEvent(msg)
  \/ \E i \in DOMAIN ready.tasks :
       DelayReadyStart(i) \/ DelayReadyWake(i) \/ DelayReadyChunker(i)

SpecChunk == Init /\ [][NextChunk]_vars

\* the REQUEST_MEMBERS commands among the frames sent on websocket c
RequestsSent(c) == SelectSeq(sent[c], LAMBDA frame : frame.op = REQUEST_MEMBERS)

\* the server ids of commands k.. of cmds, one after the other
RECURSIVE Named(_, _)
Named(cmds, k) ==
  IF k > Len(cmds) THEN << >> ELSE cmds[k].d.guild_id \o Named(cmds, k + 1)

\* C20: once a _delay_ready task is through its chunker calls, ceil(n/75)
\* REQUEST_MEMBERS commands were sent for the n servers it found staged, each
\* names at most 75 servers, and together they name every staged server
\* once, in staging order
C20_ChunkRequestsCoverStagedServers ==
  \A i \in DOMAIN ready.tasks :
    (/\ ready.tasks[i].name = "_delay_ready"
     /\ ready.tasks[i].pc \in {"wait", "done"}
     /\ ready.tasks[i].exc = "")
    => LET n == Len(ready.tasks[i].servers)
           cmds == RequestsSent(ws)
       IN /\ Len(cmds) = Ceil(n, ChunkSize)
          /\ \A k \in DOMAIN cmds : Len(cmds[k].d.guild_id) <= ChunkSize
          /\ Named(cmds, 1) = ServerIds(ready.tasks[i].servers)

\* 200 staged servers were requested with 3 commands, the last for 50
C20_Witness ==
  /\ ready.tasks # << >>
  /\ ready.tasks[1].pc = "wait"
  /\ Len(ready.tasks[1].servers) = 200
  /\ Len(RequestsSent(ws)) = 3
  /\ Len(RequestsSent(ws)[3].d.guild_id) = 50

(* --------------------- the synthetic ready: SpecReady ------------------- *)
\* READY of a client in one large server, the member chunk of that server,
\* and RECONNECT
ReadyFrames ==
  [op : {DISPATCH}, s : {1}, t : {"READY"},
   d : {[ReadyPayload(1) EXCEPT !.guilds = <<LargeGuild(1)>>]}]
  \cup [op : {DISPATCH}, s : {1}, t : {"GUILD_MEMBERS_CHUNK"},
        d : {[guild_id |-> 1, members |-> << >>]}]
  \cup [op : {RECONNECT}, d : {NoneObj}]

\* the receive loop and the _delay_ready tasks
NextReady ==
  \/ Connect
  \/ Reconnect
  \/ \E msg \in ReadyFrames :
       TasksStarted /\ MaySend(msg) /\ MayChunk(msg) /\ PollEvent(msg)
  \/ DelayReadyRun

SpecReady == Init /\ [][NextReady]_vars

\* the chunk listeners of rd that wait for a server staged in the ReadyState
\* that is the attribute
StagedWaiters(rd) ==
  IF rd.state = 0 THEN {}
  ELSE {j \in DOMAIN rd.listeners :
          /\ rd.futures[rd.listeners[j].future].state = "PENDING"
          /\ \E k \in DOMAIN rd.states[rd.state].servers :
               rd.states[rd.state].servers[k].id = rd.listeners[j].guild_id}

\* C21: ready is dispatched only when no chunk waiter of a staged server is
\* pending; the staging state is created by READY only and is removed by the
\* step that dispatches ready, and by no other
C21_ReadyAfterEveryChunkWaiter ==
  [][/\ "ready" \in Range(last'.events)
          => StagedWaiters(ready) = {} /\ ready.state # 0 /\ ready'.state = 0
     /\ (ready.state = 0 /\ ready'.state # 0)
          => last'.kind = "recv" /\ last'.t = "READY"
     /\ (ready.state # 0 /\ ready'.state = 0)
          => "ready" \in Range(last'.events)]_vars

(* ------------- a large server outside of the settle: SpecJoin ----------- *)
\* a large server as the gateway delivers it when the client joined it: no
\* `unavailable` key
JoinedGuild(id) ==
  [id |-> id, channels |-> {}, roles |-> <<id>>, members |-> EmptyDict,
   member_count |-> MembersPerChunk, large |-> TRUE]

\* the one member chunk of a server of MembersPerChunk members; member 5 is
\* in it
ChunkOf(id) == [guild_id |-> id, members |-> <<[user |-> UserData(5)]>>]

\* READY of a client in no server, the guild-creates of two large servers,
\* one that became available and one that was joined, and their chunks
JoinFrames ==
  [op : {DISPATCH}, s : {1}, t : {"READY"}, d : {ReadyPayload(1)}]
  \cup [op : {DISPATCH}, s : {1}, t : {"GUILD_CREATE"},
        d : {LargeGuild(2), JoinedGuild(3)}]
  \cup [op : {DISPATCH}, s : {1}, t : {"GUILD_MEMBERS_CHUNK"},
        d : {ChunkOf(2), ChunkOf(3)}]

\* the REQUEST_MEMBERS commands for server `id` alone among the frames sent on
\* websocket c
RequestsFor(c, id) ==
  SelectSeq(sent[c], LAMBDA frame : frame.op = REQUEST_MEMBERS /\ frame.d.guild_id = id)

\* the chunk of server `id` was processed: its member is cached
Delivered(st, id) ==
  /\ id \in DOMAIN st.servers
  /\ Get(st.servers[id].members, 5, NoneObj) # NoneObj

\* the gateway announces a server once, after the ready was dispatched
MayJoin(msg) ==
  (msg.op = DISPATCH /\ msg.t = "GUILD_CREATE")
    => /\ msg.d.id \notin DOMAIN connection.servers
       /\ ready.state = 0
       /\ ready.tasks # << >>

\* the gateway sends the chunk of a server once, in response to a
\* REQUEST_MEMBERS command for it
MayRespond(msg) ==
  (msg.op = DISPATCH /\ msg.t = "GUILD_MEMBERS_CHUNK")
    => /\ RequestsFor(ws, msg.d.guild_id) # << >>
       /\ ~Delivered(connection, msg.d.guild_id)

\* the receive loop, the _delay_ready task of a client in no large server and
\* the _chunk_and_dispatch tasks
NextJoin ==
  \/ Connect
  \/ \E msg \in JoinFrames :
       TasksStarted /\ MaySend(msg) /\ MayJoin(msg) /\ MayRespond(msg) /\ PollEvent(msg)
  \/ \E i \in DOMAIN ready.tasks : DelayReadyStart(i) \/ DelayReadyWake(i)
  \/ ChunkAndDispatchRun

SpecJoin == Init /\ [][NextJoin]_vars

\* C22: a _chunk_and_dispatch task that made its request has sent one
\* REQUEST_MEMBERS command for its server; once the chunk of the server was
\* delivered the task does not wait for a chunk any more; and a task that
\* ended has dispatched for a server whose chunk was delivered
C22_JoinedServerIsDispatchedOnce ==
  \A i \in DOMAIN ready.tasks :
    (ready.tasks[i].name = "_chunk_and_dispatch" /\ ready.tasks[i].exc = "")
    => LET task == ready.tasks[i]
       IN /\ task.pc # "start" => Len(RequestsFor(ws, task.server.id)) = 1
          /\ (task.pc = "wait" /\ Delivered(connection, task.server.id))
               => \A j \in DOMAIN task.chunks :
                    ready.futures[task.chunks[j]].state # "PENDING"
          /\ task.pc = "done" => Delivered(connection, task.server.id)

(* ------------------ DiscordVoiceWebSocket (gateway.py) ------------------ *)
\* the opcodes of the voice websocket
VOICE_IDENTIFY == 0
SELECT_PROTOCOL == 1
VOICE_READY == 2
SESSION_DESCRIPTION == 4
SPEAKING == 5
\* the main gateway's opcode of the voice-state command
VOICE_STATE == 4
\* the size of the discovery datagram and of the receive for its reply
PacketSize == 70

\* VoiceClient(**kwargs) as join_voice_channel makes it, before connect: no
\* websocket, no ssrc, no discovered address and no secret key yet. `drivers`
\* are the VoiceKeepAliveHandler threads started for it, `socket_sent` the
\* datagrams sent on its UDP socket, `recv` the discovery reply it received
NewVoiceClient(user, channel, data, session_id, main_ws) ==
  [user |-> user, channel |-> channel, session_id |-> session_id, main_ws |-> main_ws,
   guild_id |-> Get(data, "guild_id", None), token |-> Get(data, "token", None),
   endpoint |-> Get(data, "endpoint", None),
   ws |-> "none", sent |-> << >>, keep_alive |-> 0, drivers |-> << >>,
   socket |-> "none", socket_sent |-> << >>, recv |-> NoneObj,
   ssrc |-> None, voice_port |-> None, ip |-> NoneObj, port |-> None,
   secret_key |-> None, pc |-> "new"]

\* bytearray(n)
ByteArray(n) == [j \in 1..n |-> 0]

\* struct.pack_into('>I', packet, offset, value): the four bytes of value,
\* most significant first, from `offset` (counted from 0) on
PackBigEndian32(packet, offset, value) ==
  [j \in DOMAIN packet |->
     IF j > offset /\ j <= offset + 4
     THEN (value \div 256 ^ (offset + 4 - j)) % 256
     ELSE packet[j]]

\* (mutation of UnpackLittleEndian16: the first byte is the high one)
UnpackBigEndian16(recv, offset) == 256 * recv[offset + 1] + recv[offset + 2]

\* struct.unpack_from('<H', recv, offset)[0]: two bytes, least significant
\* first, from `offset` (counted from 0) on
UnpackLittleEndian16(recv, offset) == recv[offset + 1] + 256 * recv[offset + 2]

\* recv.index(0, start): the offset (counted from 0) of the first null byte
\* at or after offset `start`, None when there is none (ValueError)
IndexOfNull(recv, start) ==
  LET at == {j \in DOMAIN recv : j > start /\ recv[j] = 0}
  IN IF at = {} THEN None ELSE (CHOOSE j \in at : \A k \in at : j <= k) - 1

\* bytes.decode('ascii'): the characters of the bytes, an error on a byte
\* that is no ASCII code
DecodeAscii(bytes) ==
  IF \E j \in DOMAIN bytes : bytes[j] >= 128
  THEN [exc |-> "UnicodeDecodeError", text |-> NoneObj]
  ELSE [exc |-> "", text |-> [chars |-> bytes]]

\* DiscordVoiceWebSocket.send_as_json on the voice websocket of vc
VoiceSendAsJson(vc, payload) ==
  IF vc.ws = "open"
  THEN [vc |-> [vc EXCEPT !.sent = Append(@, payload)], exc |-> ""]
  ELSE [vc |-> vc, exc |-> "ConnectionClosed"]

\* DiscordVoiceWebSocket.from_client: the voice websocket is opened and
\* IDENTIFY is sent on it
VoiceFromClient(vc) ==
  VoiceSendAsJson([vc EXCEPT !.ws = "open"],
                  [op |-> VOICE_IDENTIFY,
                   d |-> [server_id |-> vc.guild_id, user_id |-> vc.user.id,
                          session_id |-> vc.session_id, token |-> vc.token]])

\* DiscordVoiceWebSocket.select_protocol
select_protocol(vc, ip, port) ==
  VoiceSendAsJson(vc, [op |-> SELECT_PROTOCOL,
                       d |-> [protocol |-> "udp",
                              data |-> [address |-> ip, port |-> port,
                                        mode |-> "xsalsa20_poly1305"]]])

\* DiscordVoiceWebSocket.speak
speak(vc, is_speaking) ==
  VoiceSendAsJson(vc, [op |-> SPEAKING, d |-> [speaking |-> is_speaking, delay |-> 0]])

\* initial_connection up to `yield from self.loop.sock_recv`: the ssrc and
\* port of READY are stored and the discovery datagram is sent. struct raises
\* on an ssrc that is no unsigned integer (the ssrcs drawn here are below 2^31)
InitialConnectionSend(vc, data) ==
  LET vc1 == [vc EXCEPT !.ssrc = Get(data, "ssrc", None),
                        !.voice_port = Get(data, "port", None)]
      packet == PackBigEndian32(ByteArray(PacketSize), 0, vc1.ssrc)
  IN IF vc1.ssrc = None \/ vc1.ssrc < 0
     THEN [vc |-> vc1, exc |-> "struct.error"]
     ELSE [vc |-> [vc1 EXCEPT !.socket_sent =
                                Append(@, [packet |-> packet, port |-> vc1.voice_port]),
                              !.pc = "sock_recv"],
           exc |-> ""]

\* initial_connection from the reply `recv` on: the ip is the ASCII text from
\* offset 4 to the first null byte, the port the last two bytes, least
\* significant first; then SELECT_PROTOCOL is sent with them
InitialConnectionParse(vc, recv) ==
  LET ip_start == 4
      ip_end == IndexOfNull(recv, ip_start)
      text == DecodeAscii(SubSeq(recv, ip_start + 1, ip_end))
      vc1 == [vc EXCEPT !.recv = recv, !.pc = "poll"]
  IN IF ip_end = None THEN [vc |-> vc1, exc |-> "ValueError"]
     ELSE IF text.exc # "" THEN [vc |-> vc1, exc |-> text.exc]
     ELSE IF Len(recv) < 2 THEN [vc |-> [vc1 EXCEPT !.ip = text.text], exc |-> "struct.error"]
     ELSE LET vc2 == [vc1 EXCEPT !.ip = text.text,
                                 !.port = UnpackLittleEndian16(recv, Len(recv) - 2)]
          IN select_protocol(vc2, vc2.ip, vc2.port)

\* (mutation of load_secret_key: SPEAKING is sent, the key is not stored)
LoadSecretKeyDropsKey(vc, data) == speak(vc, TRUE)

\* DiscordVoiceWebSocket.load_secret_key
load_secret_key(vc, data) ==
  speak([vc EXCEPT !.secret_key = Get(data, "secret_key", None)], TRUE)

\* DiscordVoiceWebSocket.received_message up to its first suspension: READY
\* starts a VoiceKeepAliveHandler and begins the discovery,
\* SESSION_DESCRIPTION stores the key and sends SPEAKING, any other frame is
\* ignored
VoiceReceivedMessage(vc, msg) ==
  IF msg.op = VOICE_READY
  THEN IF "heartbeat_interval" \notin DOMAIN msg.d
       THEN [vc |-> vc, exc |-> "KeyError"]
       ELSE InitialConnectionSend(
              [vc EXCEPT !.drivers = Append(@, "running"),
                         !.keep_alive = Len(vc.drivers) + 1],
              msg.d)
  ELSE IF msg.op = SESSION_DESCRIPTION
  THEN load_secret_key(vc, msg.d)
  ELSE [vc |-> vc, exc |-> ""]

\* DiscordVoiceWebSocket.close: the keep-alive is stopped, the websocket
\* closed
VoiceClose(vc) ==
  [vc EXCEPT !.drivers = StopKeepAlive(@, vc.keep_alive),
             !.ws = IF @ = "open" THEN "closed" ELSE @]

(* --------------------- VoiceClient and join_voice_channel --------------- *)
\* joins the application calls
MaxJoins == 2

\* VoiceClient.connect up to its first poll: the UDP socket is opened, then
\* the voice websocket
VoiceConnect(vc) ==
  LET r == VoiceFromClient([vc EXCEPT !.socket = "open"])
  IN [r EXCEPT !.vc.pc = "poll"]

\* VoiceClient.disconnect: the voice websocket and the UDP socket are closed
disconnect(vc) ==
  [VoiceClose(vc) EXCEPT !.socket = IF @ = "open" THEN "closed" ELSE @,
                         !.pc = "disconnected"]

\* DiscordWebSocket.voice_state: the payload
VoiceStatePayload(guild_id, channel_id) ==
  [op |-> VOICE_STATE,
   d |-> [guild_id |-> guild_id, channel_id |-> channel_id,
          self_mute |-> FALSE, self_deaf |-> FALSE]]

\* a join_voice_channel call that passed its tests: the server and channel it
\* is for, the two futures it registered, where it is, the exception it ended
\* with and the VoiceClient it made (0 before it makes one); `before` is
\* history: the voice clients of the cache when the call was made
NewCall(channel, first_future) ==
  [server |-> channel.server.id, channel |-> channel.id, pc |-> "session_id",
   session_id_future |-> first_future, voice_data_future |-> first_future + 1,
   session_id_data |-> NoneObj, voice |-> 0, exc |-> "",
   before |-> connection.voice_clients]

\* a join_voice_channel call that raised e
CallRaised(call, e) == [call EXCEPT !.pc = "done", !.exc = e]

\* what a step of a join_voice_channel call leaves in `last`
JoinStep(k, t, exc) ==
  [Step("join") EXCEPT !.t = t, !.s = k, !.exc = exc, !.before = connection]

\* join_voice_channel up to `asyncio.wait_for(session_id_future, ...)`: the
\* tests, the two waiters on the current websocket, the voice-state command
JoinVoiceChannel(channel) ==
  /\ ws # 0
  /\ Len(voice.calls) < MaxJoins
  /\ LET k == Len(voice.calls) + 1
         call == NewCall(channel, nfut + 1)
         refused == IF channel.type # "voice" THEN "InvalidArgument"
                    ELSE IF get_voice_client(connection, channel.server.id) # None
                    THEN "ClientException"
                    ELSE ""
         out == SendAsJson(VoiceStatePayload(channel.server.id, channel.id))
     IN IF refused # ""
        THEN /\ voice' = [voice EXCEPT !.calls = Append(@, CallRaised(call, refused))]
             /\ last' = JoinStep(k, "join", refused)
             /\ UNCHANGED <<future, nfut, dispatch_listeners, sent>>
        ELSE /\ future' = future \o <<NewFuture, NewFuture>>
             /\ nfut' = nfut + 2
             /\ dispatch_listeners' = [dispatch_listeners EXCEPT ![ws] =
                  @ \o <<[event |-> "VOICE_STATE_UPDATE", predicate |-> "session_id_found",
                          result |-> "None", future |-> nfut + 1],
                         [event |-> "VOICE_SERVER_UPDATE", predicate |-> "always",
                          result |-> "None", future |-> nfut + 2]>>]
             /\ sent' = out.sent
             /\ voice' = [voice EXCEPT !.calls =
                            Append(@, IF out.exc # "" THEN CallRaised(call, out.exc)
                                      ELSE call)]
             /\ last' = JoinStep(k, "join", out.exc)
  /\ UNCHANGED <<client, threads, ws, nconn, is_closed, pc, raised, sock, keep_alive, drivers,
                 connection, seen, ready>>

\* asyncio.wait_for(session_id_future, timeout=10.0) returns: the call goes
\* on to wait for the voice data, or ends with the exception of the future
JoinSessionId(k) ==
  /\ k \in DOMAIN voice.calls
  /\ voice.calls[k].pc = "session_id"
  /\ future[voice.calls[k].session_id_future].state = "FINISHED"
  /\ LET fut == future[voice.calls[k].session_id_future]
     IN /\ voice' = [voice EXCEPT !.calls[k] =
                       IF fut.exception # "" THEN CallRaised(@, fut.exception)
                       ELSE [@ EXCEPT !.pc = "voice_data",
                                      !.session_id_data = fut.result.data]]
        /\ last' = JoinStep(k, "session_id", fut.exception)
  /\ UNCHANGED <<client, threads, ws, nconn, is_closed, pc, raised, sock, keep_alive, drivers, sent,
                 dispatch_listeners, future, nfut, connection, seen, ready>>

\* the 10 seconds of one of the two asyncio.wait_for calls are over: wait_for
\* cancels the future it waited for and raises TimeoutError
JoinTimeout(k) ==
  /\ k \in DOMAIN voice.calls
  /\ voice.calls[k].pc \in {"session_id", "voice_data"}
  /\ LET f == IF voice.calls[k].pc = "session_id" THEN voice.calls[k].session_id_future
              ELSE voice.calls[k].voice_data_future
     IN /\ future[f].state = "PENDING"
        /\ future' = [future EXCEPT ![f].state = "CANCELLED"]
  /\ voice' = [voice EXCEPT !.calls[k] = CallRaised(@, "TimeoutError")]
  /\ last' = JoinStep(k, "timeout", "TimeoutError")
  /\ UNCHANGED <<client, threads, ws, nconn, is_closed, pc, raised, sock, keep_alive, drivers, sent,
                 dispatch_listeners, nfut, connection, seen, ready>>

\* asyncio.wait_for(voice_data_future, timeout=10.0) returns: the VoiceClient
\* is made of the two payloads and its connect begins
JoinVoiceData(k) ==
  /\ k \in DOMAIN voice.calls
  /\ voice.calls[k].pc = "voice_data"
  /\ future[voice.calls[k].voice_data_future].state = "FINISHED"
  /\ LET call == voice.calls[k]
         data == future[call.voice_data_future].result.data
         vc == NewVoiceClient(connection.user, call.channel, data,
                              Get(call.session_id_data, "session_id", None), ws)
         r == VoiceConnect(vc)
         v == Len(voice.clients) + 1
     IN /\ voice' = [voice EXCEPT !.clients = Append(@, r.vc),
                                  !.calls[k] = IF r.exc # "" THEN CallRaised(@, r.exc)
                                               ELSE [@ EXCEPT !.pc = "connect", !.voice = v]]
        /\ last' = JoinStep(k, "voice_data", r.exc)
  /\ UNCHANGED <<client, threads, ws, nconn, is_closed, pc, raised, sock, keep_alive, drivers, sent,
                 dispatch_listeners, future, nfut, connection, seen, ready>>

\* `except asyncio.TimeoutError` around voice.connect(): the VoiceClient is
\* disconnected on a timeout, on no other exception; the call raises
ConnectFailed(v, k, e) ==
  LET i == v.calls[k].voice
      v1 == [v EXCEPT !.clients[i].pc = "failed"]
      v2 == IF e = "TimeoutError" THEN [v1 EXCEPT !.clients[i] = disconnect(@)] ELSE v1
  IN [v2 EXCEPT !.calls[k] = CallRaised(@, e)]

\* (mutation of ConnectRaised: the VoiceClient is registered before its
\* connect is awaited)
ConnectRaisedAfterRegistering(v, k, e, st) ==
  [voice |-> ConnectFailed(v, k, e),
   st |-> add_voice_client(st, v.calls[k].server, v.calls[k].voice)]

\* join_voice_channel when voice.connect() raised e: the call ends before
\* its `self.connection._add_voice_client(server.id, voice)`
ConnectRaised(v, k, e, st) == [voice |-> ConnectFailed(v, k, e), st |-> st]

\* VoiceClient.connect after a poll_event that returned, and the rest of
\* join_voice_channel: once the secret key is there the connect returns and
\* the VoiceClient is registered for the server of the call
AfterVoicePoll(v, k, st) ==
  LET i == v.calls[k].voice
  IN IF v.clients[i].secret_key # None
     THEN [voice |-> [v EXCEPT !.clients[i].pc = "connected", !.calls[k].pc = "done"],
           st |-> add_voice_client(st, v.calls[k].server, i)]
     ELSE [voice |-> v, st |-> st]

\* what a voice step of call k does to the state, given what it made of the
\* VoiceClient and the exception it raised; op and d are what it received
VoiceStepDone(k, t, r, op, d) ==
  LET i == voice.calls[k].voice
      v1 == [voice EXCEPT !.clients[i] = r.vc]
      after == IF r.exc # "" THEN ConnectRaised(v1, k, r.exc, connection)
               ELSE IF r.vc.pc = "sock_recv" THEN [voice |-> v1, st |-> connection]
               ELSE AfterVoicePoll(v1, k, connection)
  IN /\ voice' = after.voice
     /\ connection' = after.st
     /\ last' = [JoinStep(k, t, r.exc) EXCEPT !.op = op, !.d = d]
     /\ UNCHANGED <<client, threads, ws, nconn, is_closed, pc, raised, sock, keep_alive, drivers, sent,
                    dispatch_listeners, future, nfut, seen, ready>>

\* the VoiceClient of call k is in its connect loop, at `self.ws.poll_event()`
Polling(k) ==
  /\ k \in DOMAIN voice.calls
  /\ voice.calls[k].pc = "connect"
  /\ voice.clients[voice.calls[k].voice].pc = "poll"
  /\ voice.clients[voice.calls[k].voice].ws = "open"

\* DiscordVoiceWebSocket.poll_event of the VoiceClient of call k receives
\* frame msg
VoicePoll(k, msg) ==
  /\ Polling(k)
  /\ VoiceStepDone(k, "voice_poll",
                   VoiceReceivedMessage(voice.clients[voice.calls[k].voice], msg),
                   msg.op, msg.d)

\* sock_recv of the VoiceClient of call k returns the datagram recv
VoiceDiscovery(k, recv) ==
  /\ k \in DOMAIN voice.calls
  /\ voice.calls[k].pc = "connect"
  /\ voice.clients[voice.calls[k].voice].pc = "sock_recv"
  /\ VoiceStepDone(k, "discovery",
                   InitialConnectionParse(voice.clients[voice.calls[k].voice], recv),
                   None, recv)

\* `asyncio.wait_for(self.recv(), timeout=30.0)` of poll_event times out
VoicePollTimeout(k) ==
  /\ Polling(k)
  /\ VoiceStepDone(k, "voice_timeout",
                   [vc |-> voice.clients[voice.calls[k].voice], exc |-> "TimeoutError"],
                   None, NoneObj)

\* the voice server closes the voice websocket of call k: poll_event raises
\* ConnectionClosed
VoiceRemoteClose(k) ==
  /\ Polling(k)
  /\ VoiceStepDone(k, "voice_closed",
                   [vc |-> [voice.clients[voice.calls[k].voice] EXCEPT !.ws = "closed"],
                    exc |-> "ConnectionClosed"],
                   None, NoneObj)

(* ---------------------- the voice handshake: SpecVoice ------------------ *)
\* the voice channel (of server 1) the application joins
VoiceChannel == [id |-> 11, type |-> "voice", server |-> [id |-> 1]]

\* READY of a client in no server, and what the gateway answers to the
\* voice-state command
VoiceGatewayFrames ==
  [op : {DISPATCH}, s : {1}, t : {"READY"}, d : {ReadyPayload(1)}]
  \cup [op : {DISPATCH}, s : {1}, t : {"VOICE_STATE_UPDATE"},
        d : {[user_id |-> 1, session_id |-> 7, guild_id |-> 1, channel_id |-> 11]}]
  \cup [op : {DISPATCH}, s : {1}, t : {"VOICE_SERVER_UPDATE"},
        d : {[guild_id |-> 1, token |-> 3, endpoint |-> 4]}]

\* the gateway sends the two voice events to a client that waits for them
MayAnswer(msg) ==
  (msg.op = DISPATCH /\ msg.t \in {"VOICE_STATE_UPDATE", "VOICE_SERVER_UPDATE"})
    => \E j \in DOMAIN dispatch_listeners[ws] :
         /\ dispatch_listeners[ws][j].event = msg.t
         /\ future[dispatch_listeners[ws][j].future].state = "PENDING"

\* the ssrcs the voice server hands out: 16909060 is 01 02 03 04 in bytes
Ssrcs == {1, 258, 16909060}

\* the frames of the voice server
VoiceFrames ==
  [op : {VOICE_READY},
   d : [ssrc : Ssrcs, port : {5000}, heartbeat_interval : {41250}]]
  \cup [op : {SESSION_DESCRIPTION}, d : {[secret_key |-> 9]}]

\* the ips of the discovery replies, as ASCII codes: "1.2.3.4" and "10.0.0.1"
Ips == {<<49, 46, 50, 46, 51, 46, 52>>, <<49, 48, 46, 48, 46, 48, 46, 49>>}

\* the ports of the discovery replies: 50000 is 50 C3 in bytes, least
\* significant first
Ports == {80, 256, 50000}

\* a discovery reply: four bytes of header, the ip, a null byte, `pad` where
\* the reply has nothing to say, and the port in its last two bytes
DiscoveryReply(header, ip, pad, port) ==
  [j \in 1..PacketSize |->
     IF j <= 4 THEN header
     ELSE IF j <= 4 + Len(ip) THEN ip[j - 4]
     ELSE IF j = 4 + Len(ip) + 1 THEN 0
     ELSE IF j = PacketSize - 1 THEN port % 256
     ELSE IF j = PacketSize THEN port \div 256
     ELSE pad]

\* the well-formed discovery replies
GoodReplies ==
  {DiscoveryReply(h, ip, pad, port) : h \in {0, 1}, ip \in Ips, pad \in {0, 65},
                                      port \in Ports}

\* replies that are none: without a null byte after the header, and with a
\* byte in the ip that is no ASCII code
BadReplies ==
  {[j \in 1..PacketSize |-> 49],
   [DiscoveryReply(0, <<49, 46, 50>>, 0, 80) EXCEPT ![6] = 200]}

\* the voice server sends READY once on a voice websocket
MayVoiceSend(k, msg) ==
  msg.op = VOICE_READY => voice.clients[voice.calls[k].voice].keep_alive = 0

\* the main receive loop, one join and its voice handshake
NextVoice ==
  \/ Connect
  \/ \E msg \in VoiceGatewayFrames : MaySend(msg) /\ MayAnswer(msg) /\ PollEvent(msg)
  \/ /\ voice.calls = << >>
     /\ connection.user # NoneObj
     /\ JoinVoiceChannel(VoiceChannel)
  \/ \E k \in DOMAIN voice.calls :
       \/ JoinSessionId(k)
       \/ JoinVoiceData(k)
       \/ \E msg \in VoiceFrames : Polling(k) /\ MayVoiceSend(k, msg) /\ VoicePoll(k, msg)
       \/ \E recv \in GoodReplies \cup BadReplies : VoiceDiscovery(k, recv)

SpecVoice == Init /\ [][NextVoice]_vars

\* the frames with opcode op among the frames sent on the voice websocket of vc
VoiceSent(vc, op) == SelectSeq(vc.sent, LAMBDA frame : frame.op = op)

\* C23: a step that sends SELECT_PROTOCOL is taken by a VoiceClient that had
\* received READY and started its keep-alive, it has parsed the discovery
\* reply, and the frame carries the ip and port it stored; the secret key of
\* a VoiceClient is None until a step that receives SESSION_DESCRIPTION; a
\* step that sends SPEAKING sends SPEAKING(true) and has stored the key of the
\* SESSION_DESCRIPTION it received
C23_VoiceHandshakeOrder ==
  [][\A i \in DOMAIN voice'.clients :
       LET new == i \notin DOMAIN voice.clients
           vc == voice'.clients[i]
           selects == VoiceSent(vc, SELECT_PROTOCOL)
           speaks == VoiceSent(vc, SPEAKING)
       IN /\ new => vc.secret_key = None /\ selects = << >> /\ speaks = << >>
          /\ (~new /\ Len(selects) > Len(VoiceSent(voice.clients[i], SELECT_PROTOCOL)))
               => /\ voice.clients[i].ssrc # None
                  /\ voice.clients[i].keep_alive # 0
                  /\ voice.clients[i].drivers[voice.clients[i].keep_alive] = "running"
                  /\ last'.t = "discovery" /\ vc.recv = last'.d
                  /\ vc.ip # NoneObj /\ vc.port # None
                  /\ selects[Len(selects)].d.data.address = vc.ip
                  /\ selects[Len(selects)].d.data.port = vc.port
          /\ (~new /\ vc.secret_key # voice.clients[i].secret_key)
               => last'.t = "voice_poll" /\ last'.op = SESSION_DESCRIPTION
          /\ (~new /\ Len(speaks) > Len(VoiceSent(voice.clients[i], SPEAKING)))
               => /\ last'.op = SESSION_DESCRIPTION
                  /\ vc.secret_key # None
                  /\ vc.secret_key = last'.d.secret_key
                  /\ speaks[Len(speaks)].d.speaking]_vars

\* a VoiceClient went through the whole handshake: SELECT_PROTOCOL with the
\* discovered address and SPEAKING were sent, and it holds the key
C23_Witness ==
  \E i \in DOMAIN voice.clients :
    /\ VoiceSent(voice.clients[i], SELECT_PROTOCOL) # << >>
    /\ VoiceSent(voice.clients[i], SPEAKING) # << >>
    /\ voice.clients[i].secret_key = 9
    /\ voice.clients[i].port = 50000
    /\ voice.clients[i].pc = "connected"

\* C24: a VoiceClient that received a well-formed 70-byte discovery reply
\* holds the ip of the reply (the ASCII text from offset 4 to the first null
\* byte) and its port (the last two bytes, least significant first); every
\* discovery datagram it sent is 70 bytes, its ssrc in the first four, most
\* significant first, and zeros after them
C24_DiscoveryParse ==
  \A i \in DOMAIN voice.clients :
    LET vc == voice.clients[i]
    IN /\ \A h \in {0, 1}, ip \in Ips, pad \in {0, 65}, port \in Ports :
            vc.recv = DiscoveryReply(h, ip, pad, port)
              => vc.ip = [chars |-> ip] /\ vc.port = port
       /\ \A j \in DOMAIN vc.socket_sent :
            LET packet == vc.socket_sent[j].packet
            IN /\ Len(packet) = 70
               /\ \A b \in 1..70 : packet[b] \in 0..255 /\ (b > 4 => packet[b] = 0)
               /\ vc.ssrc = packet[1] * 16777216 + packet[2] * 65536
                              + packet[3] * 256 + packet[4]

\* the reply "1.2.3.4" with 50 C3 as its last bytes was parsed by a client
\* that sent 01 02 03 04 as its ssrc
C24_Witness ==
  \E i \in DOMAIN voice.clients :
    /\ voice.clients[i].recv = DiscoveryReply(1, <<49, 46, 50, 46, 51, 46, 52>>, 0, 50000)
    /\ voice.clients[i].recv[69] = 80 /\ voice.clients[i].recv[70] = 195
    /\ voice.clients[i].ip = [chars |-> <<49, 46, 50, 46, 51, 46, 52>>]
    /\ voice.clients[i].port = 50000
    /\ SubSeq(voice.clients[i].socket_sent[1].packet, 1, 5) = <<1, 2, 3, 4, 0>>

(* --------------- joins, one after the other: SpecVoiceJoin -------------- *)
\* the frames of the voice server, with one ssrc
JoinVoiceFrames ==
  [op : {VOICE_READY}, d : {[ssrc |-> 1, port |-> 5000, heartbeat_interval |-> 41250]}]
  \cup [op : {SESSION_DESCRIPTION}, d : {[secret_key |-> 9]}]

\* a well-formed discovery reply and one without a null byte
JoinReplies ==
  {DiscoveryReply(0, <<49, 46, 50, 46, 51, 46, 52>>, 0, 50000),
   [j \in 1..PacketSize |-> 49]}

\* the steps of join_voice_channel call k after its first, with the voice
\* handshake, the timeouts and a close by the voice server
JoinRun(k) ==
  \/ JoinSessionId(k)
  \/ JoinTimeout(k)
  \/ JoinVoiceData(k)
  \/ \E msg \in JoinVoiceFrames : Polling(k) /\ MayVoiceSend(k, msg) /\ VoicePoll(k, msg)
  \/ \E recv \in JoinReplies : VoiceDiscovery(k, recv)
  \/ VoicePollTimeout(k)
  \/ VoiceRemoteClose(k)

\* the main receive loop and joins that do not overlap
NextVoiceJoin ==
  \/ Connect
  \/ \E msg \in VoiceGatewayFrames : MaySend(msg) /\ MayAnswer(msg) /\ PollEvent(msg)
  \/ /\ \A k \in DOMAIN voice.calls : voice.calls[k].pc = "done"
     /\ connection.user # NoneObj
     /\ JoinVoiceChannel(VoiceChannel)
  \/ \E k \in DOMAIN voice.calls : JoinRun(k)

SpecVoiceJoin == Init /\ [][NextVoiceJoin]_vars

\* call k ends in this step
Ends(k) ==
  /\ voice'.calls[k].pc = "done"
  /\ k \in DOMAIN voice.calls => voice.calls[k].pc # "done"

\* C25: when a join_voice_channel call ends with an exception the voice
\* clients of the cache are those of before the call; a voice client is
\* registered for a server only in the step that ends a call for that server
\* without exception, and it is the VoiceClient of the call, connected
C25_FailedJoinKeepsVoiceClients ==
  [][/\ \A k \in DOMAIN voice'.calls :
          (Ends(k) /\ voice'.calls[k].exc # "")
            => connection'.voice_clients = voice'.calls[k].before
     /\ \A g \in DOMAIN connection'.voice_clients :
          (g \notin DOMAIN connection.voice_clients
             \/ connection.voice_clients[g] # connection'.voice_clients[g])
            => \E k \in DOMAIN voice'.calls :
                 /\ Ends(k) /\ voice'.calls[k].exc = ""
                 /\ voice'.calls[k].server = g
                 /\ voice'.calls[k].voice = connection'.voice_clients[g]
                 /\ voice'.clients[voice'.calls[k].voice].pc = "connected"
                 /\ voice'.clients[voice'.calls[k].voice].secret_key # None]_vars

\* joins failed at each stage: one in the voice connect, one on a gateway
\* waiter's timeout, and the cache has no voice client
C25_Witness ==
  /\ Len(voice.calls) = 2
  /\ voice.calls[1].pc = "done" /\ voice.calls[1].exc = "ValueError"
  /\ voice.calls[1].voice # 0
  /\ voice.calls[2].pc = "done" /\ voice.calls[2].exc = "TimeoutError"
  /\ voice.calls[2].voice = 0
  /\ connection.voice_clients = EmptyDict

\* the VoiceClient is torn down: neither its websocket nor its UDP socket is
\* open and none of its keep-alive threads runs
TornDown(vc) ==
  /\ vc.ws # "open"
  /\ vc.socket # "open"
  /\ \A i \in DOMAIN vc.drivers : vc.drivers[i] = "stopped"

\* C26: once a join_voice_channel call that made its VoiceClient has raised,
\* whatever the exception of the voice handshake, the VoiceClient is
\* disconnected: websocket and UDP socket closed, keep-alive stopped
C26_FailedHandshakeIsTornDown ==
  \A k \in DOMAIN voice.calls :
    (voice.calls[k].pc = "done" /\ voice.calls[k].exc # "" /\ voice.calls[k].voice # 0)
      => TornDown(voice.clients[voice.calls[k].voice])

(* ---------------- SpecVoiceRace: joins that overlap in time -------------- *)
\* the main receive loop and join_voice_channel calls for one server, each
\* free to start while another is suspended; the voice servers answer well
NextVoiceRace ==
  \/ Connect
  \/ \E msg \in VoiceGatewayFrames : MaySend(msg) /\ MayAnswer(msg) /\ PollEvent(msg)
  \/ /\ connection.user # NoneObj
     /\ JoinVoiceChannel(VoiceChannel)
  \/ \E k \in DOMAIN voice.calls :
       \/ JoinSessionId(k)
       \/ JoinVoiceData(k)
       \/ \E msg \in JoinVoiceFrames :
            Polling(k) /\ MayVoiceSend(k, msg) /\ VoicePoll(k, msg)
       \/ VoiceDiscovery(k, DiscoveryReply(0, <<49, 46, 50, 46, 51, 46, 52>>, 0, 50000))

SpecVoiceRace == Init /\ [][NextVoiceRace]_vars

\* the VoiceClients whose connect completed for server g
Established(g) ==
  {i \in DOMAIN voice.clients :
     voice.clients[i].guild_id = g /\ voice.clients[i].pc = "connected"}

\* C27: a server has at most one established VoiceClient, and an established
\* VoiceClient is the one the cache holds for its server
C27_OneVoiceConnectionPerServer ==
  \A g \in {VoiceChannel.server.id} :
    /\ Cardinality(Established(g)) <= 1
    /\ \A i \in Established(g) : get_voice_client(connection, g) = i

(* ------------------------ KeepAliveHandler (gateway.py) ------------------ *)
\* heartbeats a thread begins
MaxTicks == 2

\* a KeepAliveHandler thread that was started: it is in
\* `self._stop_ev.wait(self.interval)`; `f` is the future of
\* run_coroutine_threadsafe, `data` the payload of the coroutine. History:
\* the heartbeats it began, the frames its coroutines wrote, and whether a
\* send of its coroutine raised in the websocket library
NewThread ==
  [pc |-> "wait", f |-> "none", data |-> NoneObj, ticks |-> 0, written |-> 0,
   failed |-> FALSE]

\* thread i of websocket c; the threads are those of drivers[c], in order
Thread(c, i) == IF i \in DOMAIN threads[c] THEN threads[c][i] ELSE NewThread

SetThread(c, i, t) ==
  [threads EXCEPT ![c] =
     [j \in 1..(IF i > Len(threads[c]) THEN i ELSE Len(threads[c])) |->
        IF j = i THEN t ELSE Thread(c, j)]]

\* KeepAliveHandler.get_payload
get_payload == [op |-> HEARTBEAT, d |-> connection.sequence]

\* what a step of thread i leaves in `last`
ThreadStep(t, i) == [Step("thread") EXCEPT !.t = t, !.s = i]

\* (mutation of KeepAliveWait: the stop event is not looked at)
KeepAliveWaitIgnoresStop(c, i) ==
  [Thread(c, i) EXCEPT !.pc = "result", !.f = "scheduled", !.data = get_payload,
                       !.ticks = @ + 1]

\* KeepAliveHandler.run from `self._stop_ev.wait(self.interval)` to
\* `f.result()`: the wait returns True when the event is set, and run returns;
\* when the interval elapses with the event clear the payload is made and
\* send_as_json handed to the event loop
KeepAliveWait(c, i) ==
  IF drivers[c][i] = "stopped" THEN [Thread(c, i) EXCEPT !.pc = "ended"]
  ELSE [Thread(c, i) EXCEPT !.pc = "result", !.f = "scheduled", !.data = get_payload,
                            !.ticks = @ + 1]

\* (mutation of KeepAliveSend: the thread writes the frame itself)
KeepAliveSendFromThread(c, i) == SendAsJsonOn(c, get_payload).sent

\* what the thread does to the socket in that step: nothing, the frame is
\* left to the coroutine
KeepAliveSend(c, i) == sent

\* the thread's step from the wait
KeepAliveRun(c, i) ==
  /\ i \in DOMAIN drivers[c]
  /\ Thread(c, i).pc = "wait"
  /\ drivers[c][i] = "stopped" \/ Thread(c, i).ticks < MaxTicks
  /\ threads' = SetThread(c, i, KeepAliveWait(c, i))
  /\ sent' = IF KeepAliveWait(c, i).pc = "result" THEN KeepAliveSend(c, i) ELSE sent
  /\ last' = ThreadStep("wait", i)
  /\ UNCHANGED <<client, ws, nconn, is_closed, pc, raised, sock, keep_alive, drivers,
                 dispatch_listeners, future, nfut, connection, seen, ready, voice>>

\* the event loop runs the coroutine the thread handed over:
\* `self.ws.send_as_json(data)` on the thread's websocket
HeartbeatSend(c, i) ==
  /\ Thread(c, i).f = "scheduled"
  /\ LET r == SendAsJsonOn(c, Thread(c, i).data)
     IN /\ sent' = r.sent
        /\ threads' = SetThread(c, i,
             [Thread(c, i) EXCEPT !.f = IF r.exc = "" THEN "done" ELSE "raised",
                                  !.written = IF r.closed THEN @ ELSE @ + 1,
                                  !.failed = @ \/ r.closed])
        /\ last' = [Step("heartbeat") EXCEPT !.s = i, !.exc = r.exc]
  /\ UNCHANGED <<client, ws, nconn, is_closed, pc, raised, sock, keep_alive, drivers,
                 dispatch_listeners, future, nfut, connection, seen, ready, voice>>

\* KeepAliveHandler.stop: the event is set
stop(drv, i) == [drv EXCEPT ![i] = "stopped"]

\* `f.result()` once the coroutine is done: `except Exception: self.stop()`,
\* then the loop of run goes back to the wait
KeepAliveResult(c, i) ==
  /\ Thread(c, i).pc = "result"
  /\ Thread(c, i).f \in {"done", "raised"}
  /\ drivers' = IF Thread(c, i).f = "raised"
                THEN [drivers EXCEPT ![c] = stop(@, i)] ELSE drivers
  /\ threads' = SetThread(c, i, [Thread(c, i) EXCEPT !.pc = "wait", !.f = "none"])
  /\ last' = [ThreadStep("result", i) EXCEPT
                !.exc = IF Thread(c, i).f = "raised" THEN "ConnectionClosed" ELSE ""]
  /\ UNCHANGED <<client, ws, nconn, is_closed, pc, raised, sock, keep_alive, sent,
                 dispatch_listeners, future, nfut, connection, seen, ready, voice>>

\* stop() called on thread i of websocket c, by whoever holds the handler;
\* `last` keeps what the event was before the call
KeepAliveStop(c, i) ==
  /\ i \in DOMAIN drivers[c]
  /\ drivers' = [drivers EXCEPT ![c] = stop(@, i)]
  /\ last' = [Step("stop") EXCEPT !.s = i, !.d = [ws |-> c, was |-> drivers[c][i]]]
  /\ UNCHANGED <<client, threads, ws, nconn, is_closed, pc, raised, sock, keep_alive, sent,
                 dispatch_listeners, future, nfut, connection, seen, ready, voice>>

(* ------------- SpecBeat: the keep-alive threads and the senders ---------- *)
\* READY, which starts a keep-alive thread, and RECONNECT, which stops it
BeatFrames ==
  [op : {DISPATCH}, s : {1}, t : {"READY"}, d : {ReadyPayload(1)}]
  \cup [op : {RECONNECT}, d : {NoneObj}]

\* the receive loop, closes of the socket with a code that can be handled
\* and with one that cannot, the keep-alive threads with the coroutines they
\* hand to the event loop, calls of stop, and a command sent by the application
NextBeat ==
  \/ Connect
  \/ \E msg \in BeatFrames : MaySend(msg) /\ PollEvent(msg)
  \/ \E code \in ClosingCodes : RemoteClose(code)
  \/ PollClosed
  \/ \E c \in Conns : \E i \in DOMAIN drivers[c] :
       \/ KeepAliveRun(c, i)
       \/ HeartbeatSend(c, i)
       \/ KeepAliveResult(c, i)
       \/ KeepAliveStop(c, i)
  \/ /\ connection.user # NoneObj
     /\ voice.calls = << >>
     /\ JoinVoiceChannel(VoiceChannel)

SpecBeat == Init /\ [][NextBeat]_vars

\* C28: a keep-alive thread one of whose sends failed in the websocket
\* library, whatever the close code of the socket, has its stop event set
\* once f.result() is over, and begins no heartbeat after that
C28_FailedSendStopsDriver ==
  \A c \in Conns : \A i \in DOMAIN drivers[c] :
    (Thread(c, i).failed /\ Thread(c, i).pc # "result")
      => drivers[c][i] = "stopped"

\* C29: once the stop event of a keep-alive thread is set it stays set and
\* the thread begins no heartbeat; only the heartbeat it was sending when
\* stop was called is still written; a further call of stop changes nothing.
\* So a thread stopped before its first interval elapsed sends nothing
C29_StopIsIdempotent ==
  [][\A c \in Conns : \A i \in DOMAIN drivers[c] :
       drivers[c][i] = "stopped" =>
         /\ drivers'[c][i] = "stopped"
         /\ Thread(c, i)'.ticks = Thread(c, i).ticks
         /\ Thread(c, i).pc # "result" => Thread(c, i)'.written = Thread(c, i).written
         /\ (last'.kind = "stop" /\ last'.d.ws = c /\ last'.s = i)
              => (drivers' = drivers /\ threads' = threads /\ sent' = sent)]_vars

\* stop was called again on a thread that had been stopped before its first
\* interval elapsed; run has returned and no heartbeat was begun or written
C29_Witness ==
  \E c \in Conns : \E i \in DOMAIN drivers[c] :
    /\ last.kind = "stop" /\ last.d.ws = c /\ last.s = i /\ last.d.was = "stopped"
    /\ drivers[c][i] = "stopped"
    /\ Thread(c, i).pc = "ended"
    /\ Thread(c, i).ticks = 0 /\ Thread(c, i).written = 0

\* C30: every step that writes on a socket is a step of the event loop and
\* writes one whole frame after those already written, on one socket; no
\* step of a keep-alive thread writes, and a HEARTBEAT frame is written by
\* the send_as_json coroutine the thread handed to the loop
C30_WritesAreSerialized ==
  [][\A c \in Conns :
       sent'[c] # sent[c] =>
         /\ last'.kind # "thread"
         /\ Len(sent'[c]) = Len(sent[c]) + 1
         /\ SubSeq(sent'[c], 1, Len(sent[c])) = sent[c]
         /\ \A c2 \in Conns \ {c} : sent'[c2] = sent[c2]
         /\ sent'[c][Len(sent'[c])].op = HEARTBEAT => last'.kind = "heartbeat"]_vars

\* the voice-state command was written while the heartbeat coroutine of a
\* thread was waiting on the loop, after an earlier heartbeat of the thread
C30_Witness ==
  \E c \in Conns : \E i \in DOMAIN drivers[c] :
    /\ last.kind = "join" /\ last.exc = ""
    /\ Thread(c, i).f = "scheduled" /\ Thread(c, i).written = 1
    /\ \E j \in DOMAIN sent[c] : sent[c][j].op = HEARTBEAT
    /\ sent[c][Len(sent[c])].op = VOICE_STATE

(* ------------------- SpecMessage: wait_for_message ---------------------- *)
\* READY of a client in one server with two channels, and messages of two
\* authors in them
MessageFrames ==
  [op : {DISPATCH}, s : {1}, t : {"READY"},
   d : {[ReadyPayload(1) EXCEPT !.guilds = <<Guild(1, {11, 12})>>]}]
  \cup [op : {DISPATCH}, s : {2}, t : {"MESSAGE_CREATE"},
        d : {[id |-> 1, channel_id |-> 11, content |-> "a", author |-> [id |-> 5]],
             [id |-> 1, channel_id |-> 12, content |-> "b", author |-> [id |-> 6]],
             [id |-> 2, channel_id |-> 11, content |-> "b", author |-> [id |-> 5]]}]

\* the filters of the wait_for_message calls: an author, a channel, a
\* content with a check, all four
NoFilters == [author |-> NoneObj, channel |-> NoneObj, content |-> "None", check |-> "None"]

MessageFilters ==
  {[NoFilters EXCEPT !.author = [id |-> 5]],
   [NoFilters EXCEPT !.channel = [id |-> 11]],
   [NoFilters EXCEPT !.content = "b", !.check = "is1"],
   [author |-> [id |-> 6], channel |-> [id |-> 12], content |-> "b", check |-> "is1"]}

\* messages come after READY, up to MaxMsgs of them
MayPost(msg) ==
  (msg.op = DISPATCH /\ msg.t = "MESSAGE_CREATE")
    => (connection.user # NoneObj /\ Len(connection.messages) < MaxMsgs)

\* wait_for_message calls the application makes
MaxCalls == 2

\* the receive loop, wait_for_message calls and their timeouts
NextMessage ==
  \/ Connect
  \/ \E msg \in MessageFrames : MaySend(msg) /\ MayPost(msg) /\ PollEvent(msg)
  \/ \E filters \in MessageFilters :
       Len(client.calls) < MaxCalls /\ WaitForMessage(filters)
  \/ \E i \in Futures : Cancel(i)

SpecMessage == Init /\ [][NextMessage]_vars

\* the messages dispatched after call k, in order
Since(k) ==
  SubSeq(connection.messages, client.calls[k].start + 1, Len(connection.messages))

\* the message satisfies the filters
Satisfies(filters, message) == message_predicate(filters, message) = "true"

MaxAttempts == 7

\* the retry limit of _retry_helper for a 502
MaxRetries == 5

\* _retry_helper called with retries=0: the request is sent. History: the
\* attempts made and the sleeps between them, in milliseconds
NewRequest ==
  [pc |-> "request", retries |-> 0, resp |-> None, attempts |-> 1, slept |-> << >>]

\* the history of a request that sleeps `ms`
Slept(req, ms) ==
  IF req.attempts < MaxAttempts THEN Append(req.slept, ms) ELSE req.slept

\* _retry_helper once the response is there: a 502 is retried after
\* retries + 1 seconds while retries < 5; a 429 is retried after Retry-After
\* milliseconds with the same retries; any other response is returned
retry_helper(req, status, retry_after) ==
  IF status = 502 /\ req.retries < MaxRetries
  THEN [req EXCEPT !.pc = "sleep", !.retries = @ + 1,
                   !.slept = Slept(req, (req.retries + 1) * 1000)]
  ELSE IF status = 429
  THEN [req EXCEPT !.pc = "sleep", !.slept = Slept(req, retry_after)]
  ELSE [req EXCEPT !.pc = "returned", !.resp = status]

\* what a step of request k leaves the variables other than client
RetryStep(k, t, status) ==
  /\ last' = [Step("request") EXCEPT !.s = k, !.t = t, !.op = status]
  /\ UNCHANGED <<threads, voice, ready, ws, nconn, is_closed, pc, raised, sock,
                 keep_alive, drivers, sent, dispatch_listeners, future, nfut,
                 connection, seen>>

\* a method of the client calls _retry_helper
RetryStart ==
  /\ client.requests = << >>
  /\ client' = [client EXCEPT !.requests = <<NewRequest>>]
  /\ RetryStep(1, "start", None)

\* the server answers request k
RetryRespond(k, status, retry_after) ==
  /\ k \in DOMAIN client.requests
  /\ client.requests[k].pc = "request"
  /\ client' = [client EXCEPT !.requests[k] = retry_helper(@, status, retry_after)]
  /\ RetryStep(k, "response", status)

\* the sleep of request k is over: _retry_helper calls itself and the
\* request is sent again
RetryWake(k) ==
  /\ k \in DOMAIN client.requests
  /\ client.requests[k].pc = "sleep"
  /\ client' = [client EXCEPT
                  !.requests[k].pc = "request",
                  !.requests[k].attempts = IF @ < MaxAttempts THEN @ + 1 ELSE @]
  /\ RetryStep(k, "retry", None)

\* the responses of the server: status and Retry-After in milliseconds
Responses ==
  [status : {200, 404, 502}, retry_after : {0}]
  \cup [status : {429}, retry_after : {1000, 2500}]

NextRetry ==
  \/ RetryStart
  \/ \E k \in DOMAIN client.requests :
       \/ \E resp \in Responses : RetryRespond(k, resp.status, resp.retry_after)
       \/ RetryWake(k)

\* every step that can be taken is taken in the end: the server answers and
\* the sleeps end
SpecRetry == Init /\ [][NextRetry]_vars /\ WF_vars(NextRetry)

\* C32: a request _retry_helper was called for is returned in the end,
\* whatever the server answers
C32_RetryTerminates ==
  (client.requests # << >>)
    ~> (client.requests # << >> /\ client.requests[1].pc = "returned")

(* ------------------- the chunk waiters: SpecWaiters --------------------- *)
\* the most chunks a server of the model is delivered in
MaxChunks == 3

\* the member counts the gateway declares: those that just fill k chunks and
\* those that need one member of chunk k
MemberCounts ==
  {k * MembersPerChunk : k \in 1..(MaxChunks - 1)}
  \cup {(k - 1) * MembersPerChunk + 1 : k \in 1..MaxChunks}

\* a large server of m members
SizedGuild(id, m) == [LargeGuild(id) EXCEPT !.member_count = m]

\* READY of a client in two large servers and the member chunks of the two
WaiterChunkFrames ==
  [op : {DISPATCH}, s : {1}, t : {"READY"},
   d : {[ReadyPayload(1) EXCEPT !.guilds = <<SizedGuild(1, m1), SizedGuild(2, m2)>>] :
          m1 \in MemberCounts, m2 \in MemberCounts}]
  \cup [op : {DISPATCH}, s : {1}, t : {"GUILD_MEMBERS_CHUNK"},
        d : {[guild_id |-> g, members |-> << >>] : g \in {1, 2}}]

\* the gateway sends chunks of the servers the client is in
MayChunkCached(msg) ==
  (msg.op = DISPATCH /\ msg.t = "GUILD_MEMBERS_CHUNK")
    => msg.d.guild_id \in DOMAIN connection.servers

\* the receive loop and the _delay_ready task
NextWaiters ==
  \/ Connect
  \/ \E msg \in WaiterChunkFrames :
       TasksStarted /\ MaySend(msg) /\ MayChunkCached(msg) /\ PollEvent(msg)
  \/ DelayReadyRun

SpecWaiters == Init /\ [][NextWaiters]_vars

\* the chunk listeners of rd for server S whose future is pending
PendingFor(rd, S) ==
  {j \in DOMAIN rd.listeners :
     /\ rd.listeners[j].guild_id = S
     /\ rd.futures[rd.listeners[j].future].state = "PENDING"}

\* C33: a processed member chunk of server S resolves the earliest
\* registered pending chunk waiter of S and no other future, and leaves the
\* waiters of the other servers registered; the step of a _delay_ready task
\* that registers its chunk waiters registers n of them for a staged server
\* of m members, where 1000 (n - 1) < m <= 1000 n
C33_ChunkResolvesOneWaiter ==
  [][/\ (last'.kind = "recv" /\ last'.t = "GUILD_MEMBERS_CHUNK" /\ last'.exc = "")
        => LET S == last'.d.guild_id
               pending == PendingFor(ready, S)
               first == CHOOSE j \in pending : \A k \in pending : j <= k
               done == {f \in DOMAIN ready.futures : ready'.futures[f] # ready.futures[f]}
           IN /\ DOMAIN ready'.futures = DOMAIN ready.futures
              /\ IF pending = {} THEN done = {}
                 ELSE /\ done = {ready.listeners[first].future}
                      /\ ready'.futures[ready.listeners[first].future].state = "FINISHED"
              /\ \A j \in DOMAIN ready.listeners :
                   (ready.listeners[j].guild_id # S
                      /\ ready.futures[ready.listeners[j].future].state = "PENDING")
                   => \E k \in DOMAIN ready'.listeners :
                        ready'.listeners[k] = ready.listeners[j]
     /\ \A i \in DOMAIN ready.tasks :
          (/\ ready.tasks[i].name = "_delay_ready"
           /\ ready.tasks[i].pc \in {"start", "sleep"}
           /\ ready'.tasks[i].pc \notin {"start", "sleep"}
           /\ ready'.tasks[i].exc = "")
          => \A k \in DOMAIN ready'.tasks[i].servers :
               LET server == ready'.tasks[i].servers[k]
                   n == Cardinality({j \in DOMAIN ready'.listeners :
                                       /\ j > Len(ready.listeners)
                                       /\ ready'.listeners[j].guild_id = server.id})
               IN /\ (n - 1) * 1000 < server.member_count
                  /\ server.member_count <= n * 1000]_vars

\* a chunk of server 1, staged with 2001 members, was processed and resolved
\* the second of its three waiters: the third is pending, as are the two of
\* server 2
C33_Witness ==
  /\ last.kind = "recv" /\ last.t = "GUILD_MEMBERS_CHUNK" /\ last.d.guild_id = 1
  /\ ready.tasks # << >>
  /\ ready.tasks[1].pc = "wait"
  /\ ready.tasks[1].servers[1].member_count = 2 * MembersPerChunk + 1
  /\ Len(ready.tasks[1].chunks) = 5
  /\ ready.futures[ready.tasks[1].chunks[2]].state = "FINISHED"
  /\ Cardinality(PendingFor(ready, 1)) = 1
  /\ Cardinality(PendingFor(ready, 2)) = 2

(* ------------------ a cancelled waiter in a dispatch -------------------- *)
\* C34 (as claimed): a DISPATCH of an event a cancelled waiter is registered
\* for is processed without an exception, whatever the waiter's predicate
\* returns on the payload: the cancelled waiter keeps its cancelled handle
\* and is not registered afterwards
C34_CancelledWaiterIsSkipped ==
  [][\A msg \in WaiterFrames :
       PollEvent(msg) =>
         \A e \in Listeners(ws) :
           (future[e.future].state = "CANCELLED" /\ e.event = msg.t)
           => /\ last'.exc = ""
              /\ future'[e.future] = future[e.future]
              /\ e \notin Listeners(ws)']_vars

(* ------- a large server announced before the ready: SpecWindow ---------- *)
\* READY of a client in one large server, the guild-creates of two large
\* servers that become available, and the member chunks
WindowFrames ==
  [op : {DISPATCH}, s : {1}, t : {"READY"},
   d : {[ReadyPayload(1) EXCEPT !.guilds = <<LargeGuild(1)>>]}]
  \cup [op : {DISPATCH}, s : {1}, t : {"GUILD_CREATE"},
        d : {LargeGuild(2), LargeGuild(3)}]
  \cup [op : {DISPATCH}, s : {1}, t : {"GUILD_MEMBERS_CHUNK"},
        d : {ChunkOf(g) : g \in 1..3}]

\* server g is named in a REQUEST_MEMBERS command sent on websocket c
Requested(c, g) ==
  \E k \in DOMAIN Named(RequestsSent(c), 1) : Named(RequestsSent(c), 1)[k] = g

\* the gateway announces a server once, between READY and the ready event
MayStage(msg) ==
  (msg.op = DISPATCH /\ msg.t = "GUILD_CREATE")
    => msg.d.id \notin DOMAIN connection.servers /\ ready.state # 0

\* the gateway sends a chunk of a server once, in response to a
\* REQUEST_MEMBERS command that names it
MayAnswerRequest(msg) ==
  (msg.op = DISPATCH /\ msg.t = "GUILD_MEMBERS_CHUNK")
    => /\ ws # 0
       /\ Requested(ws, msg.d.guild_id)
       /\ ~Delivered(connection, msg.d.guild_id)

\* the receive loop processes a frame of the gateway
WindowPoll(msg) ==
  TasksStarted /\ MaySend(msg) /\ MayStage(msg) /\ MayAnswerRequest(msg) /\ PollEvent(msg)

\* the member chunk of a requested server arrives
WindowChunk ==
  \E msg \in WindowFrames : msg.t = "GUILD_MEMBERS_CHUNK" /\ WindowPoll(msg)

NextWindow ==
  \/ Connect
  \/ \E msg \in WindowFrames : WindowPoll(msg)
  \/ DelayReadyRun

\* the event loop runs every task that can run, and the gateway answers
\* every REQUEST_MEMBERS command
SpecWindow ==
  Init /\ [][NextWindow]_vars /\ WF_vars(DelayReadyRun) /\ WF_vars(WindowChunk)

\* C35 (as claimed): a large server whose guild-create was processed after
\* READY is named in a REQUEST_MEMBERS command in the end, and the ready or
\* its server_available is dispatched in the end
C35_AnnouncedServerIsRequested ==
  \A g \in {2, 3} :
    /\ (g \in DOMAIN connection.servers) ~> (ws # 0 /\ Requested(ws, g))
    /\ (g \in DOMAIN connection.servers)
         ~> ("ready" \in Range(last.events) \/ "server_available" \in Range(last.events))

(* ------------- joins for different servers: SpecVoiceServers ------------ *)
\* the voice channels of two servers
VoiceChannels ==
  {VoiceChannel, [id |-> 22, type |-> "voice", server |-> [id |-> 2]]}

\* READY of a client in no server, and what the gateway answers to the
\* voice-state commands for the two servers
ServersGatewayFrames ==
  [op : {DISPATCH}, s : {1}, t : {"READY"}, d : {ReadyPayload(1)}]
  \cup [op : {DISPATCH}, s : {1}, t : {"VOICE_STATE_UPDATE"},
        d : {[user_id |-> 1, session_id |-> 6 + ch.server.id,
              guild_id |-> ch.server.id, channel_id |-> ch.id] : ch \in VoiceChannels}]
  \cup [op : {DISPATCH}, s : {1}, t : {"VOICE_SERVER_UPDATE"},
        d : {[guild_id |-> ch.server.id, token |-> 2 + ch.server.id,
              endpoint |-> 3 + ch.server.id] : ch \in VoiceChannels}]

\* the voice-state commands sent on websocket c for server g
VoiceStatesFor(c, g) ==
  SelectSeq(sent[c], LAMBDA frame : frame.op = VOICE_STATE /\ frame.d.guild_id = g)

\* the gateway sends the voice events of a server in response to a
\* voice-state command for that server
MayAnswerFor(msg) ==
  (msg.op = DISPATCH /\ msg.t \in {"VOICE_STATE_UPDATE", "VOICE_SERVER_UPDATE"})
    => VoiceStatesFor(ws, msg.d.guild_id) # << >>

\* the main receive loop and one join_voice_channel call per server, each
\* free to start while the other is suspended
NextVoiceServers ==
  \/ Connect
  \/ \E msg \in ServersGatewayFrames :
       MaySend(msg) /\ MayAnswer(msg) /\ MayAnswerFor(msg) /\ PollEvent(msg)
  \/ \E ch \in VoiceChannels :
       /\ connection.user # NoneObj
       /\ \A k \in DOMAIN voice.calls : voice.calls[k].server # ch.server.id
       /\ JoinVoiceChannel(ch)
  \/ \E k \in DOMAIN voice.calls :
       \/ JoinSessionId(k)
       \/ JoinVoiceData(k)
       \/ \E msg \in JoinVoiceFrames :
            Polling(k) /\ MayVoiceSend(k, msg) /\ VoicePoll(k, msg)
       \/ VoiceDiscovery(k, DiscoveryReply(0, <<49, 46, 50, 46, 51, 46, 52>>, 0, 50000))

SpecVoiceServers == Init /\ [][NextVoiceServers]_vars

\* C36 (as claimed): the voice-state payload a join_voice_channel call took
\* its session id from was sent for the server of the call, and so was the
\* voice-server payload its VoiceClient was made of
C36_SessionIsBuiltForItsServer ==
  \A k \in DOMAIN voice.calls :
    LET call == voice.calls[k]
    IN /\ call.session_id_data # NoneObj => call.session_id_data.guild_id = call.server
       /\ call.voice # 0 => voice.clients[call.voice].guild_id = call.server

(* ------------ the keep-alive threads over reconnects: SpecDrivers ------- *)
\* the receive loop with its reconnects, closes of the socket by the remote
\* end, and the keep-alive threads with the coroutines they hand to the
\* event loop
NextDrivers ==
  \/ Connect
  \/ Reconnect
  \/ \E msg \in BeatFrames : MaySend(msg) /\ PollEvent(msg)
  \/ \E code \in ClosingCodes : RemoteClose(code)
  \/ PollClosed
  \/ \E c \in Conns : \E i \in DOMAIN drivers[c] :
       \/ KeepAliveRun(c, i)
       \/ HeartbeatSend(c, i)
       \/ KeepAliveResult(c, i)

SpecDrivers == Init /\ [][NextDrivers]_vars

\* the keep-alive threads of websocket c whose stop event is clear
Running(c) == {i \in DOMAIN drivers[c] : drivers[c][i] = "running"}

\* C37 (as claimed): at most one keep-alive thread of the client runs, and
\* none of a websocket the client has replaced
C37_OneDriverRuns ==
  /\ \A c \in Conns : \A d \in Conns :
       \A i \in Running(c) : \A j \in Running(d) : c = d /\ i = j
  /\ \A c \in Conns : c # ws => Running(c) = {}

(* ---------------------- the ready flag of the client -------------------- *)
\* C38 (as claimed): the ready flag of the client is set only while no
\* READY is being settled and the client is not closed
C38_ReadyFlagOnlyWhileSettled ==
  client.is_ready => (ready.state = 0 /\ ~is_closed)

(* ------------- events of a server that is not cached: SpecUncached ------ *)
\* READY of a client in server 1, and the server-scoped events for server 1
\* and for server 2, which the client does not have
UncachedFrames ==
  [op : {DISPATCH}, s : {1}, t : {"READY"},
   d : {[ReadyPayload(1) EXCEPT !.guilds = <<MemberGuild>>]}]
  \cup [op : {DISPATCH}, s : {1}, t : {"GUILD_MEMBER_ADD"},
        d : [guild_id : {1, 2}, user : {UserData(7)}, roles : {<<3>>}]]
  \cup [op : {DISPATCH}, s : {1}, t : {"GUILD_MEMBER_REMOVE"},
        d : [guild_id : {1, 2}, user : {[id |-> 5]}]]
  \cup [op : {DISPATCH}, s : {1}, t : {"GUILD_MEMBER_UPDATE"},
        d : [guild_id : {1, 2}, user : {FullUser(5, "a")}, roles : {<<3>>}]]
  \cup [op : {DISPATCH}, s : {1}, t : {"PRESENCE_UPDATE"},
        d : [guild_id : {1, 2}, user : {[id |-> 5]}, status : {"idle"}]]
  \cup [op : {DISPATCH}, s : {1}, t : {"GUILD_ROLE_CREATE"},
        d : [guild_id : {1, 2}, role : {[id |-> 4]}]]
  \cup [op : {DISPATCH}, s : {1}, t : {"GUILD_ROLE_DELETE"},
        d : [guild_id : {1, 2}, role_id : {3}]]
  \cup [op : {DISPATCH}, s : {1}, t : {"GUILD_MEMBERS_CHUNK"},
        d : [guild_id : {1, 2},
             members : {<<[user |-> FullUser(6, "a"), roles |-> <<4>>, joined_at |-> 1]>>}]]
  \cup [op : {DISPATCH}, s : {1}, t : {"CHANNEL_CREATE"},
        d : [guild_id : {1, 2}, id : {12}]]
  \cup [op : {DISPATCH}, s : {1}, t : {"VOICE_STATE_UPDATE"},
        d : [guild_id : {1, 2}, user_id : {5}, channel_id : {11}]]

NextUncached ==
  \/ Connect
  \/ \E msg \in UncachedFrames :
       MaySend(msg) /\ MayAdd(msg) /\ MayCreateRole(msg) /\ PollEvent(msg)

SpecUncached == Init /\ [][NextUncached]_vars

\* C39 (as claimed): a server-scoped event whose guild id is not in the
\* cache changes nothing of the cache but the sequence, dispatches no
\* application event and raises nothing
C39_UncachedServerEventIsIgnored ==
  [][(/\ last'.kind = "recv" /\ last'.op = DISPATCH /\ last'.t # "READY"
      /\ last'.d.guild_id \notin DOMAIN connection.servers)
     => /\ [connection' EXCEPT !.sequence = connection.sequence] = connection
        /\ last'.events = <<"socket_raw_receive", "socket_response">>
        /\ last'.exc = ""]_vars

(* --------------------- a READY during another's settle ------------------ *)
\* C40 (as claimed): no _delay_ready task fails for want of its staging
\* state, and the task that dispatches ready removes the staging state of
\* the READY it was created by, the one it took its launch event from
C40_ReadyIsDispatchedForOwnReady ==
  [][\A i \in DOMAIN ready.tasks :
       (ready.tasks[i].name = "_delay_ready" /\ ready.tasks[i].pc # "done"
          /\ ready'.tasks[i].pc = "done")
       => /\ ready'.tasks[i].exc # "AttributeError"
          /\ "ready" \in Range(last'.events) => ready.tasks[i].launch = ready.state]_vars

====
